---- MODULE Spec2Model ----
(***************************************************************************)
(* A model of src/load_balancer.py: the layer-7 load balancer's routing    *)
(* engine, its per-request bookkeeping, the health-check loop and the      *)
(* administrative policy change.                                           *)
(*                                                                         *)
(* Request handlers run as preemptible threads (Flask under werkzeug, one  *)
(* thread per request), so every access to shared state is a step of its   *)
(* own; a "with lock:" block is an acquire step followed by the steps of   *)
(* its body, the last of which releases the lock.  Statements that touch   *)
(* only locals are folded into the next step that touches shared state.    *)
(* get_healthy_backends() and min() are each one step.                     *)
(*                                                                         *)
(* A path is a sequence of tokens ("video/", "movie", ".mp4"), so that a   *)
(* prefix, a suffix and a substring test are tests on the sequence.        *)
(***************************************************************************)
EXTENDS Integers, Sequences, FiniteSets, TLC

\* ------------------------------------------------------------------ bounds

NumThreads == 2
MaxRequests == 2
MaxSelections == 4
MaxControlRequests == 1
MaxBurst == 21
MaxFull == 52
MaxAnswered == 11

\* ------------------------------------------------------- program constants

HistoryCap == 50
RecentWindow == 20
LatencyWindow == 10
ForwardTimeout == 10
MsPerSecond == 1000
Hundredths == 100

\* --------------------------------------------------------------- registry

BACKENDS ==
    << [name |-> "ServerA", type |-> "video"],
       [name |-> "ServerB", type |-> "api"],
       [name |-> "ServerC", type |-> "image"] >>

Names == { BACKENDS[i].name : i \in 1..Len(BACKENDS) }

BackendOf(n) == CHOOSE b \in { BACKENDS[i] : i \in 1..Len(BACKENDS) } : b.name = n

valid == << "round-robin", "least-connections", "content-based", "file-size" >>

ValidSet == { valid[i] : i \in 1..Len(valid) }

large_file_extensions == << ".mp4", ".mkv", ".avi", ".zip", ".iso" >>

Threads == 1..NumThreads

Free == 0

NoBackend == [name |-> "None", type |-> "None"]

\* ------------------------------------------------------------------ inputs

VideoPath == << "video/", "movie", ".mp4" >>
ApiPath == << "api/", "users" >>
ImagePath == << "image/", "logo", ".png" >>
ZipPath == << "archive", ".zip" >>
NestedVideoPath == << "static/", "video/", "clip" >>
RootPath == << >>

Paths == { VideoPath, ApiPath, ImagePath, ZipPath, NestedVideoPath, RootPath }

\* One path with an affinity and a large extension, one small path with an
\* affinity, one with no prefix that contains "video/".
MixPaths == { VideoPath, ApiPath, NestedVideoPath }

\* One path per large extension, one that only contains "video/", one small.
FsPaths ==
    { << "movie", ".mp4" >>, << "movie", ".mkv" >>, << "movie", ".avi" >>,
      ZipPath, << "disk", ".iso" >>, NestedVideoPath, ApiPath }

\* What change_algorithm is asked for: the four policies and one unknown name.
AlgoRequests == ValidSet \cup { "random" }

\* A backend's answer to a probe: 200, another status of the 2xx class, a
\* status outside it, or no answer (timeout, refused connection).
ProbeOutcomes == { "200", "204", "500", "exception" }

\* How a forward ends: a response, a refused connection, a timeout.
ForwardOutcomes == { "ok", "conn_error", "timeout" }

VARIABLES
    healthy,             \* BACKENDS[i]["healthy"], by name
    active_connections,
    total_requests,
    failed_requests,
    response_times,
    request_history,
    current_index,
    lock,                \* Free, or the thread holding it
    ALGORITHM,
    pc,                  \* each request thread's position in proxy()
    path,                \* proxy's argument
    backends,            \* the healthy list the running algorithm read
    backend,             \* the selected backend
    duration,
    outcome,             \* how the forward ended
    route,               \* the algorithms running: select_backend's callee, its callee
    resp,                \* the status code returned to the caller
    decs,                \* decrements of active_connections done by the request
    started,             \* requests accepted so far
    seen,                \* history: the values ALGORITHM has had since the first test
    sel_policy,          \* history: the policy a returned change had set at that test
    hc_i,                \* health_check: index of the backend being probed
    hc_pc,
    hc_resp,             \* health_check: the answer to the last probe
    ca_pc,               \* change_algorithm's position
    new_algo,            \* change_algorithm: the name asked for
    ca_resp,
    st_pc,               \* stats' position
    st_algo,             \* stats: the fields of the answer built so far
    st_backends,
    st_total

vars == << healthy, active_connections, total_requests, failed_requests,
           response_times, request_history, current_index, lock, ALGORITHM,
           pc, path, backends, backend, duration, outcome, route, resp, decs,
           started, seen, sel_policy,
           hc_i, hc_pc, hc_resp, ca_pc, new_algo, ca_resp,
           st_pc, st_algo, st_backends, st_total >>

counters == << active_connections, total_requests, failed_requests >>

metrics == << counters, response_times, request_history, current_index >>

locals == << path, backends, backend, duration, outcome, route, resp, decs >>

chain == << seen, sel_policy >>

observer == << st_pc, st_algo, st_backends, st_total >>

control == << healthy, hc_i, hc_pc, hc_resp, ALGORITHM, ca_pc, new_algo, ca_resp,
              observer >>

\* ----------------------------------------------------------- pure helpers

startswith(p, prefix) == Len(p) >= 1 /\ p[1] = prefix

endswith(p, suffix) == Len(p) >= 1 /\ p[Len(p)] = suffix

contains(p, part) == \E i \in 1..Len(p) : p[i] = part

\* Mutant: the whole declaration, flagged or not.
get_healthy_backends_all == BACKENDS

get_healthy_backends == SelectSeq(BACKENDS, LAMBDA b : healthy[b.name])

\* Mutant: the first healthy backend, whatever the counts.
MinByActive_first(bs) == bs[1]

\* Mutant: the last element whose key is minimal.
MinByActive_last(bs) ==
    bs[CHOOSE i \in 1..Len(bs) :
          /\ \A j \in 1..Len(bs) :
                active_connections[bs[i].name] <= active_connections[bs[j].name]
          /\ \A j \in (i + 1)..Len(bs) :
                active_connections[bs[j].name] > active_connections[bs[i].name]]

\* Python's min(bs, key=...): the first element whose key is minimal.
MinByActive(bs) ==
    bs[CHOOSE i \in 1..Len(bs) :
          /\ \A j \in 1..Len(bs) :
                active_connections[bs[i].name] <= active_connections[bs[j].name]
          /\ \A j \in 1..(i - 1) :
                active_connections[bs[j].name] > active_connections[bs[i].name]]

OfType(bs, ty) == SelectSeq(bs, LAMBDA b : b.type = ty)

\* proxy's request_type, and content_based_routing's prefix chain.
RequestType(p) ==
    IF startswith(p, "video/") THEN "video"
    ELSE IF startswith(p, "api/") THEN "api"
    ELSE IF startswith(p, "image/") THEN "image"
    ELSE "default"

\* Mutant: the extensions only, without the "video/" test.
is_large_file_ext(p) ==
    \E i \in 1..Len(large_file_extensions) : endswith(p, large_file_extensions[i])

is_large_file(p) ==
    \/ \E i \in 1..Len(large_file_extensions) : endswith(p, large_file_extensions[i])
    \/ contains(p, "video/")

\* Mutant: a full history keeps what it has and drops the new entry.
AppendHistory_keep(h, rec) ==
    IF Len(h) >= HistoryCap THEN h ELSE Append(h, rec)

\* request_history.append(...) followed by the pop(0) that keeps 50 entries.
AppendHistory(h, rec) ==
    LET h2 == Append(h, rec)
    IN  IF Len(h2) > HistoryCap THEN Tail(h2) ELSE h2

HistoryRecord(t, status, optimized) ==
    [ path      |-> << "/" >> \o path[t],
      type      |-> RequestType(path[t]),
      backend   |-> backend[t].name,
      duration  |-> duration[t] * MsPerSecond,
      status    |-> status,
      optimized |-> optimized ]

\* sum(d.values()) for a dictionary d with the keys S.
RECURSIVE SumOver(_, _)
SumOver(f, S) ==
    IF S = {} THEN 0
    ELSE LET n == CHOOSE x \in S : TRUE IN f[n] + SumOver(f, S \ {n})

RECURSIVE SeqSum(_)
SeqSum(q) == IF q = << >> THEN 0 ELSE Head(q) + SeqSum(Tail(q))

\* q[-k:]
LastN(q, k) == SubSeq(q, IF Len(q) > k THEN Len(q) - k + 1 ELSE 1, Len(q))

\* round(num / den, 2), in hundredths.
Round2(num, den) == (2 * Hundredths * num + den) \div (2 * den)

\* The trailing average of a backend in hundredths of a millisecond, 0 for a
\* backend with no recorded time.
avg_response(n) ==
    LET w == LastN(response_times[n], LatencyWindow)
    IN  IF response_times[n] = << >> THEN 0
        ELSE Round2(SeqSum(w) * MsPerSecond, Len(w))

\* One entry of the "backends" list of broadcast_metrics.
BackendView(b) ==
    [ name         |-> b.name,
      type         |-> b.type,
      healthy      |-> healthy[b.name],
      active       |-> active_connections[b.name],
      total        |-> total_requests[b.name],
      failed       |-> failed_requests[b.name],
      avg_response |-> avg_response(b.name) ]

\* What broadcast_metrics emits when it runs in the current state.
metrics_data ==
    [ algorithm       |-> ALGORITHM,
      backends        |-> [i \in 1..Len(BACKENDS) |-> BackendView(BACKENDS[i])],
      recent_requests |-> LastN(request_history, RecentWindow) ]

\* One entry of the "backends" list of a stats answer.
BackendStats(b) ==
    [ name               |-> b.name,
      type               |-> b.type,
      healthy            |-> healthy[b.name],
      active_connections |-> active_connections[b.name],
      total_requests     |-> total_requests[b.name],
      failed_requests    |-> failed_requests[b.name],
      avg_response_time  |-> avg_response(b.name) ]

\* ----------------------------------------------------------------- initial

InitMetrics ==
    /\ active_connections = [n \in Names |-> 0]
    /\ total_requests = [n \in Names |-> 0]
    /\ failed_requests = [n \in Names |-> 0]
    /\ response_times = [n \in Names |-> << >>]
    /\ request_history = << >>
    /\ current_index = 0
    /\ lock = Free

InitThreads ==
    /\ pc = [t \in Threads |-> "idle"]
    /\ path = [t \in Threads |-> RootPath]
    /\ backends = [t \in Threads |-> << >>]
    /\ backend = [t \in Threads |-> NoBackend]
    /\ duration = [t \in Threads |-> 0]
    /\ outcome = [t \in Threads |-> "none"]
    /\ route = [t \in Threads |-> << >>]
    /\ resp = [t \in Threads |-> 0]
    /\ decs = [t \in Threads |-> 0]
    /\ started = 0
    /\ seen = [t \in Threads |-> {}]
    /\ sel_policy = [t \in Threads |-> "none"]

InitControl ==
    /\ hc_i = 1
    /\ hc_pc = "probe"
    /\ hc_resp = "none"
    /\ ca_pc = "idle"
    /\ new_algo = "none"
    /\ ca_resp = 0
    /\ st_pc = "idle"
    /\ st_algo = "none"
    /\ st_backends = << >>
    /\ st_total = 0

Init ==
    /\ InitMetrics
    /\ InitThreads
    /\ InitControl
    /\ healthy = [n \in Names |-> TRUE]
    /\ ALGORITHM = "content-based"

\* ---------------------------------------------------------- small steps

Goto(t, l) == pc' = [pc EXCEPT ![t] = l]

Acquire(t) == lock = Free /\ lock' = t

Release(t) == lock = t /\ lock' = Free

\* ----------------------------------------------------- routing algorithms

\* select_backend: the if-chain reads ALGORITHM once per branch.
Branch(l) ==
    CASE l = "sel_rr" ->
           [policy |-> "round-robin", fn |-> "round_robin", call |-> "rr_get",
            next |-> "sel_lc"]
      [] l = "sel_lc" ->
           [policy |-> "least-connections", fn |-> "least_connections",
            call |-> "lc_get", next |-> "sel_cb"]
      [] l = "sel_cb" ->
           [policy |-> "content-based", fn |-> "content_based_routing",
            call |-> "cb_get", next |-> "sel_fs"]
      [] l = "sel_fs" ->
           [policy |-> "file-size", fn |-> "file_size_based_routing",
            call |-> "fs_get", next |-> "else"]

\* A change_algorithm that has returned 200 and has not been followed by
\* another call.
ChangeReturned == ca_pc = "idle" /\ ca_resp = 200

\* Mutant: the policy is not consulted.
select_backend_default(t) ==
    /\ pc[t] \in { "sel_rr", "sel_lc", "sel_cb", "sel_fs" }
    /\ Goto(t, "rr_get")
    /\ route' = [route EXCEPT ![t] = << "round_robin" >>]
    /\ seen' = [seen EXCEPT ![t] = {}]
    /\ sel_policy' =
          IF pc[t] = "sel_rr"
          THEN [sel_policy EXCEPT ![t] = IF ChangeReturned THEN ALGORITHM ELSE "none"]
          ELSE sel_policy
    /\ UNCHANGED << metrics, lock, path, backends, backend, duration, outcome,
                    resp, decs, started, control >>

select_backend(t) ==
    /\ pc[t] \in { "sel_rr", "sel_lc", "sel_cb", "sel_fs" }
    /\ IF ALGORITHM = Branch(pc[t]).policy
       THEN /\ Goto(t, Branch(pc[t]).call)
            /\ route' = [route EXCEPT ![t] = << Branch(pc[t]).fn >>]
            /\ seen' = [seen EXCEPT ![t] = {}]
       ELSE IF Branch(pc[t]).next = "else"
       THEN /\ Goto(t, "rr_get")
            /\ route' = [route EXCEPT ![t] = << "round_robin" >>]
            /\ seen' = [seen EXCEPT ![t] = {}]
       ELSE /\ Goto(t, Branch(pc[t]).next)
            /\ seen' = [seen EXCEPT ![t] = @ \cup { ALGORITHM }]
            /\ UNCHANGED route
    /\ sel_policy' =
          IF pc[t] = "sel_rr"
          THEN [sel_policy EXCEPT ![t] = IF ChangeReturned THEN ALGORITHM ELSE "none"]
          ELSE sel_policy
    /\ UNCHANGED << metrics, lock, path, backends, backend, duration, outcome,
                    resp, decs, started, control >>

\* The first two lines of each algorithm: read the healthy list, None if empty.
ReadHealthy(t, next) ==
    /\ backends' = [backends EXCEPT ![t] = get_healthy_backends]
    /\ sel_policy' = [sel_policy EXCEPT ![t] = "none"]
    /\ Goto(t, IF get_healthy_backends = << >> THEN "none" ELSE next)
    /\ UNCHANGED << metrics, lock, path, backend, duration, outcome, route,
                    resp, decs, started, control, seen >>

\* An algorithm returns b to proxy: the algorithm's own locals are gone.
Selected(t, b) ==
    /\ backend' = [backend EXCEPT ![t] = b]
    /\ backends' = [backends EXCEPT ![t] = << >>]
    /\ route' = [route EXCEPT ![t] = << >>]
    /\ Goto(t, "begin")

\* Mutant: no fallback, None when the algorithm has no candidate of its own.
Fallback_none(t) ==
    /\ backends' = [backends EXCEPT ![t] = << >>]
    /\ Goto(t, "none")
    /\ UNCHANGED << backend, route >>

\* Mutant: the first healthy backend, without the cursor.
Fallback_first(t) == Selected(t, backends[t][1])

\* "return round_robin()": the caller's healthy list is gone.
Fallback(t) ==
    /\ backends' = [backends EXCEPT ![t] = << >>]
    /\ route' = [route EXCEPT ![t] = Append(@, "round_robin")]
    /\ Goto(t, "rr_get")
    /\ UNCHANGED backend

round_robin_get(t) ==
    /\ pc[t] = "rr_get"
    /\ ReadHealthy(t, "rr_lock")

round_robin_lock(t) ==
    /\ pc[t] = "rr_lock"
    /\ Acquire(t)
    /\ Goto(t, "rr_cs")
    /\ UNCHANGED << metrics, locals, started, control, chain >>

\* Mutant: the cursor is not advanced.
round_robin_cs_stuck(t) ==
    /\ pc[t] = "rr_cs"
    /\ Selected(t, backends[t][(current_index % Len(backends[t])) + 1])
    /\ Release(t)
    /\ UNCHANGED << metrics, path, duration, outcome, resp, decs, started, control, chain >>

\* Mutant: the cursor indexes the declaration, not the healthy list.
round_robin_cs_all(t) ==
    /\ pc[t] = "rr_cs"
    /\ Selected(t, BACKENDS[(current_index % Len(BACKENDS)) + 1])
    /\ current_index' = current_index + 1
    /\ Release(t)
    /\ UNCHANGED << counters, response_times, request_history, path, duration,
                    outcome, resp, decs, started, control, chain >>

\* Mutant: the cursor is kept below the length of the healthy list.
round_robin_cs_wrap(t) ==
    /\ pc[t] = "rr_cs"
    /\ Selected(t, backends[t][(current_index % Len(backends[t])) + 1])
    /\ current_index' = (current_index + 1) % Len(backends[t])
    /\ Release(t)
    /\ UNCHANGED << counters, response_times, request_history, path, duration,
                    outcome, resp, decs, started, control, chain >>

round_robin_cs(t) ==
    /\ pc[t] = "rr_cs"
    /\ Selected(t, backends[t][(current_index % Len(backends[t])) + 1])
    /\ current_index' = current_index + 1
    /\ Release(t)
    /\ UNCHANGED << counters, response_times, request_history, path, duration,
                    outcome, resp, decs, started, control, chain >>

least_connections_get(t) ==
    /\ pc[t] = "lc_get"
    /\ ReadHealthy(t, "lc_min")

least_connections_min(t) ==
    /\ pc[t] = "lc_min"
    /\ Selected(t, MinByActive(backends[t]))
    /\ UNCHANGED << metrics, lock, path, duration, outcome, resp, decs, started,
                    control, chain >>

content_based_get(t) ==
    /\ pc[t] = "cb_get"
    /\ ReadHealthy(t, "cb_pick")

\* Mutant: no filter on the declared type.
AffinityServers_all(bs, p) ==
    IF RequestType(p) = "default" THEN << >> ELSE bs

\* The affinity servers for the path's prefix; none for a path with no prefix.
AffinityServers(bs, p) ==
    IF RequestType(p) = "default" THEN << >> ELSE OfType(bs, RequestType(p))

content_based_pick(t) ==
    /\ pc[t] = "cb_pick"
    /\ IF AffinityServers(backends[t], path[t]) # << >>
       THEN Selected(t, MinByActive(AffinityServers(backends[t], path[t])))
       ELSE Fallback(t)
    /\ UNCHANGED << metrics, lock, path, duration, outcome, resp, decs, started,
                    control, chain >>

file_size_get(t) ==
    /\ pc[t] = "fs_get"
    /\ ReadHealthy(t, "fs_pick")

\* Mutant: every path goes to the least busy backend.
file_size_pick_least(t) ==
    /\ pc[t] = "fs_pick"
    /\ Selected(t, MinByActive(backends[t]))
    /\ UNCHANGED << metrics, lock, path, duration, outcome, resp, decs, started,
                    control, chain >>

file_size_pick(t) ==
    /\ pc[t] = "fs_pick"
    /\ IF is_large_file(path[t])
       THEN Selected(t, MinByActive(backends[t]))
       ELSE Fallback(t)
    /\ UNCHANGED << metrics, lock, path, duration, outcome, resp, decs, started,
                    control, chain >>

\* -------------------------------------------------------------------- proxy

\* A request arrives: proxy(path) starts and calls select_backend.
proxy_start(t, p, limit) ==
    /\ pc[t] \in { "idle", "done" }
    /\ started < limit
    /\ started' = started + 1
    /\ path' = [path EXCEPT ![t] = p]
    /\ resp' = [resp EXCEPT ![t] = 0]
    /\ decs' = [decs EXCEPT ![t] = 0]
    /\ Goto(t, "sel_rr")
    /\ UNCHANGED << metrics, lock, backends, backend, duration, outcome, route,
                    control, chain >>

\* proxy returns status to the caller: the handler's locals are gone.
Return(t, status) ==
    /\ resp' = [resp EXCEPT ![t] = status]
    /\ path' = [path EXCEPT ![t] = RootPath]
    /\ backends' = [backends EXCEPT ![t] = << >>]
    /\ backend' = [backend EXCEPT ![t] = NoBackend]
    /\ duration' = [duration EXCEPT ![t] = 0]
    /\ outcome' = [outcome EXCEPT ![t] = "none"]
    /\ route' = [route EXCEPT ![t] = << >>]
    /\ Goto(t, "done")

\* Mutant: the rejected request is recorded as a failed one.
proxy_no_backend_logged(t) ==
    /\ pc[t] = "none"
    /\ request_history' =
          AppendHistory(request_history, HistoryRecord(t, "failed", FALSE))
    /\ Return(t, 503)
    /\ UNCHANGED << counters, response_times, current_index, lock, decs, started,
                    control, chain >>

\* "if not backend": 503, nothing else.
proxy_no_backend(t) ==
    /\ pc[t] = "none"
    /\ Return(t, 503)
    /\ UNCHANGED << metrics, lock, decs, started, control, chain >>

\* "with lock:" of the connection tracking.
proxy_track_lock(t) ==
    /\ pc[t] = "begin"
    /\ Acquire(t)
    /\ Goto(t, "inc_active")
    /\ UNCHANGED << metrics, locals, started, control, chain >>

\* Mutant: "= 1" for "+= 1".
proxy_inc_active_assign(t) ==
    /\ pc[t] = "inc_active"
    /\ active_connections' = [active_connections EXCEPT ![backend[t].name] = 1]
    /\ Goto(t, "inc_total")
    /\ UNCHANGED << total_requests, failed_requests, response_times,
                    request_history, current_index, lock, locals, started,
                    control, chain >>

proxy_inc_active(t) ==
    /\ pc[t] = "inc_active"
    /\ active_connections' =
          [active_connections EXCEPT ![backend[t].name] = @ + 1]
    /\ Goto(t, "inc_total")
    /\ UNCHANGED << total_requests, failed_requests, response_times,
                    request_history, current_index, lock, locals, started,
                    control, chain >>

\* Mutant: the lock is kept for the forward.
proxy_inc_total_hold(t) ==
    /\ pc[t] = "inc_total"
    /\ total_requests' = [total_requests EXCEPT ![backend[t].name] = @ + 1]
    /\ Goto(t, "forward")
    /\ UNCHANGED << active_connections, failed_requests, response_times,
                    request_history, current_index, lock, locals, started,
                    control, chain >>

proxy_inc_total(t) ==
    /\ pc[t] = "inc_total"
    /\ total_requests' = [total_requests EXCEPT ![backend[t].name] = @ + 1]
    /\ Release(t)
    /\ Goto(t, "forward")
    /\ UNCHANGED << active_connections, failed_requests, response_times,
                    request_history, current_index, locals, started, control, chain >>

\* The time a forward takes, in seconds: a timeout takes the whole timeout.
ForwardTime(o) == IF o = "timeout" THEN ForwardTimeout ELSE 1

\* Mutant: a timeout is not raised; the request goes on as if answered.
proxy_forward_timeout_ok(t, o) ==
    /\ pc[t] = "forward"
    /\ duration' = [duration EXCEPT ![t] = ForwardTime(o)]
    /\ outcome' = [outcome EXCEPT ![t] = o]
    /\ Goto(t, IF o \in { "ok", "timeout" } THEN "rt_append" ELSE "ex_lock")
    /\ UNCHANGED << metrics, lock, path, backends, backend, route, resp, decs,
                    started, control, chain >>

\* requests.request(...) returns or raises; duration is taken right after.
proxy_forward(t, o) ==
    /\ pc[t] = "forward"
    /\ duration' = [duration EXCEPT ![t] = ForwardTime(o)]
    /\ outcome' = [outcome EXCEPT ![t] = o]
    /\ Goto(t, IF o = "ok" THEN "rt_append" ELSE "ex_lock")
    /\ UNCHANGED << metrics, lock, path, backends, backend, route, resp, decs,
                    started, control, chain >>

\* response_times[backend_name].append(duration): outside the lock.
proxy_record_time(t) ==
    /\ pc[t] = "rt_append"
    /\ response_times' =
          [response_times EXCEPT ![backend[t].name] = Append(@, duration[t])]
    /\ Goto(t, "hist_lock")
    /\ UNCHANGED << counters, request_history, current_index, lock, locals,
                    started, control, chain >>

proxy_history_lock(t) ==
    /\ pc[t] = "hist_lock"
    /\ Acquire(t)
    /\ Goto(t, "hist_append")
    /\ UNCHANGED << metrics, locals, started, control, chain >>

\* Mutant: optimized is set for every request with a content prefix.
proxy_history_append_prefix(t) ==
    /\ pc[t] = "hist_append"
    /\ request_history' =
          AppendHistory(request_history,
              HistoryRecord(t, "success", RequestType(path[t]) # "default"))
    /\ Release(t)
    /\ Goto(t, "bcast")
    /\ UNCHANGED << counters, response_times, current_index, locals, started,
                    control, chain >>

\* Mutant: the record is appended and the lock is kept.
proxy_history_append_hold(t) ==
    /\ pc[t] = "hist_append"
    /\ request_history' =
          AppendHistory(request_history,
              HistoryRecord(t, "success", backend[t].type = RequestType(path[t])))
    /\ Goto(t, "bcast")
    /\ UNCHANGED << counters, response_times, current_index, lock, locals,
                    started, control, chain >>

proxy_history_append(t) ==
    /\ pc[t] = "hist_append"
    /\ request_history' =
          AppendHistory(request_history,
              HistoryRecord(t, "success", backend[t].type = RequestType(path[t])))
    /\ Release(t)
    /\ Goto(t, "bcast")
    /\ UNCHANGED << counters, response_times, current_index, locals, started,
                    control, chain >>

\* broadcast_metrics() on the success path.
proxy_broadcast(t) ==
    /\ pc[t] = "bcast"
    /\ Goto(t, "respond")
    /\ UNCHANGED << metrics, lock, locals, started, control, chain >>

\* "return Response(...)": the response is built and the finally clause runs,
\* or building it raises and the except clause of the same try takes over.
proxy_respond(t) ==
    /\ pc[t] = "respond"
    /\ \/ resp' = [resp EXCEPT ![t] = 200] /\ Goto(t, "fin_lock")
       \/ UNCHANGED resp /\ Goto(t, "ex_lock")
    /\ UNCHANGED << metrics, lock, path, backends, backend, duration, outcome,
                    route, decs, started, control, chain >>

proxy_except_lock(t) ==
    /\ pc[t] = "ex_lock"
    /\ Acquire(t)
    /\ Goto(t, "ex_failed")
    /\ UNCHANGED << metrics, locals, started, control, chain >>

\* Mutant: a failed forward also takes the backend out of rotation.
proxy_except_failed_eject(t) ==
    /\ pc[t] = "ex_failed"
    /\ failed_requests' = [failed_requests EXCEPT ![backend[t].name] = @ + 1]
    /\ healthy' = [healthy EXCEPT ![backend[t].name] = FALSE]
    /\ Goto(t, "ex_append")
    /\ UNCHANGED << active_connections, total_requests, response_times,
                    request_history, current_index, lock, locals, started,
                    hc_i, hc_pc, hc_resp, ALGORITHM, ca_pc, new_algo, ca_resp,
                    observer, chain >>

\* Mutant: a failed request is taken out of total_requests.
proxy_except_failed_uncount(t) ==
    /\ pc[t] = "ex_failed"
    /\ failed_requests' = [failed_requests EXCEPT ![backend[t].name] = @ + 1]
    /\ total_requests' = [total_requests EXCEPT ![backend[t].name] = @ - 1]
    /\ Goto(t, "ex_append")
    /\ UNCHANGED << active_connections, response_times, request_history,
                    current_index, lock, locals, started, control, chain >>

proxy_except_failed(t) ==
    /\ pc[t] = "ex_failed"
    /\ failed_requests' = [failed_requests EXCEPT ![backend[t].name] = @ + 1]
    /\ Goto(t, "ex_append")
    /\ UNCHANGED << active_connections, total_requests, response_times,
                    request_history, current_index, lock, locals, started,
                    control, chain >>

\* Mutant: the failed record has the optimized flag of an answered one.
proxy_except_append_match(t) ==
    /\ pc[t] = "ex_append"
    /\ request_history' =
          AppendHistory(request_history,
              HistoryRecord(t, "failed", backend[t].type = RequestType(path[t])))
    /\ Release(t)
    /\ Goto(t, "ex_bcast")
    /\ UNCHANGED << counters, response_times, current_index, locals, started,
                    control, chain >>

proxy_except_append(t) ==
    /\ pc[t] = "ex_append"
    /\ request_history' =
          AppendHistory(request_history, HistoryRecord(t, "failed", FALSE))
    /\ Release(t)
    /\ Goto(t, "ex_bcast")
    /\ UNCHANGED << counters, response_times, current_index, locals, started,
                    control, chain >>

\* Mutant: the decrement sits at the end of the try body, not in a finally
\* clause, so the except clause returns without it.
proxy_except_return_nofinally(t) ==
    /\ pc[t] = "ex_bcast"
    /\ Return(t, 502)
    /\ UNCHANGED << metrics, lock, decs, started, control, chain >>

\* Mutant: after the broadcast the failed request is sent through selection
\* again.
proxy_except_return_retry(t) ==
    /\ pc[t] = "ex_bcast"
    /\ Goto(t, "sel_rr")
    /\ UNCHANGED << metrics, lock, locals, started, control, chain >>

\* broadcast_metrics() of the except clause, then "return ..., 502".
proxy_except_return(t) ==
    /\ pc[t] = "ex_bcast"
    /\ resp' = [resp EXCEPT ![t] = 502]
    /\ Goto(t, "fin_lock")
    /\ UNCHANGED << metrics, lock, path, backends, backend, duration, outcome,
                    route, decs, started, control, chain >>

\* finally: with lock: active_connections[backend_name] -= 1
proxy_finally_lock(t) ==
    /\ pc[t] = "fin_lock"
    /\ Acquire(t)
    /\ Goto(t, "fin_dec")
    /\ UNCHANGED << metrics, locals, started, control, chain >>

proxy_finally_dec(t) ==
    /\ pc[t] = "fin_dec"
    /\ active_connections' =
          [active_connections EXCEPT ![backend[t].name] = @ - 1]
    /\ decs' = [decs EXCEPT ![t] = @ + 1]
    /\ Release(t)
    /\ Return(t, resp[t])
    /\ UNCHANGED << total_requests, failed_requests, response_times,
                    request_history, current_index, started, control, chain >>

\* ------------------------------------------------------------ health check

HcNext == (hc_i % Len(BACKENDS)) + 1

\* Mutant: every probe is followed by a broadcast.
health_check_probe_loud(o) ==
    /\ hc_pc = "probe"
    /\ hc_resp' = o
    /\ healthy' = [healthy EXCEPT ![BACKENDS[hc_i].name] = (o = "200")]
    /\ hc_pc' = "bcast"
    /\ UNCHANGED << hc_i, metrics, lock, pc, locals, chain, started, ALGORITHM,
                    ca_pc, new_algo, ca_resp, observer >>

\* Mutant: a probe that raises leaves the flag as it was.
health_check_probe_pass(o) ==
    /\ hc_pc = "probe"
    /\ hc_resp' = o
    /\ LET n == BACKENDS[hc_i].name
           was_healthy == healthy[n]
           now == IF o = "exception" THEN was_healthy ELSE (o = "200")
       IN  /\ healthy' = [healthy EXCEPT ![n] = now]
           /\ IF was_healthy # now
              THEN hc_pc' = "bcast" /\ UNCHANGED hc_i
              ELSE hc_pc' = "probe" /\ hc_i' = HcNext
    /\ UNCHANGED << metrics, lock, pc, locals, chain, started, ALGORITHM, ca_pc,
                    new_algo, ca_resp, observer >>

\* One probe of BACKENDS[hc_i]: the flag is set from the answer; a changed
\* flag is followed by a broadcast.
health_check_probe(o) ==
    /\ hc_pc = "probe"
    /\ hc_resp' = o
    /\ LET n == BACKENDS[hc_i].name
           was_healthy == healthy[n]
           now == IF o = "exception" THEN FALSE ELSE (o = "200")
       IN  /\ healthy' = [healthy EXCEPT ![n] = now]
           /\ IF was_healthy # now
              THEN hc_pc' = "bcast" /\ UNCHANGED hc_i
              ELSE hc_pc' = "probe" /\ hc_i' = HcNext
    /\ UNCHANGED << metrics, lock, pc, locals, chain, started, ALGORITHM, ca_pc,
                    new_algo, ca_resp, observer >>

\* Mutant: the loop ends after its first broadcast.
health_check_broadcast_exit ==
    /\ hc_pc = "bcast"
    /\ hc_pc' = "exit"
    /\ UNCHANGED << hc_i, healthy, hc_resp, metrics, lock, pc, locals, chain,
                    started, ALGORITHM, ca_pc, new_algo, ca_resp, observer >>

health_check_broadcast ==
    /\ hc_pc = "bcast"
    /\ hc_pc' = "probe"
    /\ hc_i' = HcNext
    /\ UNCHANGED << healthy, hc_resp, metrics, lock, pc, locals, chain, started,
                    ALGORITHM, ca_pc, new_algo, ca_resp, observer >>

\* --------------------------------------------------------- policy change

\* The history of the selections in progress once ALGORITHM is set to a.
Seen(a) ==
    [t \in DOMAIN seen |->
        IF pc[t] \in { "sel_lc", "sel_cb", "sel_fs" }
        THEN seen[t] \cup { a } ELSE seen[t]]

\* Mutant: the name is stored without the membership test.
change_algorithm_unchecked(a) ==
    /\ ca_pc = "idle"
    /\ new_algo' = a
    /\ ALGORITHM' = a
    /\ ca_pc' = "bcast"
    /\ ca_resp' = 0
    /\ seen' = Seen(a)
    /\ UNCHANGED << metrics, lock, pc, locals, sel_policy, started, healthy,
                    hc_i, hc_pc, hc_resp, observer >>

change_algorithm(a) ==
    /\ ca_pc = "idle"
    /\ new_algo' = a
    /\ IF a \in ValidSet
       THEN /\ ALGORITHM' = a
            /\ ca_pc' = "bcast"
            /\ ca_resp' = 0
            /\ seen' = Seen(a)
       ELSE /\ ca_resp' = 400
            /\ UNCHANGED << ALGORITHM, ca_pc, seen >>
    /\ UNCHANGED << metrics, lock, pc, locals, sel_policy, started, healthy,
                    hc_i, hc_pc, hc_resp, observer >>

\* broadcast_metrics(), then "return ..., 200".
change_algorithm_return ==
    /\ ca_pc = "bcast"
    /\ ca_pc' = "idle"
    /\ ca_resp' = 200
    /\ UNCHANGED << ALGORITHM, new_algo, metrics, lock, pc, locals, chain,
                    started, healthy, hc_i, hc_pc, hc_resp, observer >>

\* ------------------------------------------------------------------ stats

\* stats() builds its answer field by field, holding no lock: the policy,
\* the list of backends, then the two sums.
stats_algorithm ==
    /\ st_pc = "idle"
    /\ st_algo' = ALGORITHM
    /\ st_pc' = "backends"
    /\ UNCHANGED << st_backends, st_total, metrics, lock, pc, locals, chain,
                    started, healthy, hc_i, hc_pc, hc_resp, ALGORITHM, ca_pc,
                    new_algo, ca_resp >>

\* Mutant: the latency lists are emptied once they have been averaged.
stats_backends_drain ==
    /\ st_pc = "backends"
    /\ st_backends' = [i \in 1..Len(BACKENDS) |-> BackendStats(BACKENDS[i])]
    /\ response_times' = [n \in Names |-> << >>]
    /\ st_pc' = "total"
    /\ UNCHANGED << st_algo, st_total, counters, request_history, current_index,
                    lock, pc, locals, chain, started, healthy, hc_i, hc_pc,
                    hc_resp, ALGORITHM, ca_pc, new_algo, ca_resp >>

stats_backends ==
    /\ st_pc = "backends"
    /\ st_backends' = [i \in 1..Len(BACKENDS) |-> BackendStats(BACKENDS[i])]
    /\ st_pc' = "total"
    /\ UNCHANGED << st_algo, st_total, metrics, lock, pc, locals, chain, started,
                    healthy, hc_i, hc_pc, hc_resp, ALGORITHM, ca_pc, new_algo,
                    ca_resp >>

stats_total ==
    /\ st_pc = "total"
    /\ st_total' = SumOver(total_requests, Names)
    /\ st_pc' = "failures"
    /\ UNCHANGED << st_algo, st_backends, metrics, lock, pc, locals, chain,
                    started, healthy, hc_i, hc_pc, hc_resp, ALGORITHM, ca_pc,
                    new_algo, ca_resp >>

\* The answer stats() returns from the point where only the last sum is left.
StatsAnswer ==
    [ algorithm      |-> st_algo,
      backends       |-> st_backends,
      total_requests |-> st_total,
      total_failures |-> SumOver(failed_requests, Names) ]

\* The last sum, and the answer is returned.
stats_return ==
    /\ st_pc = "failures"
    /\ st_pc' = "idle"
    /\ st_algo' = "none"
    /\ st_backends' = << >>
    /\ st_total' = 0
    /\ UNCHANGED << metrics, lock, pc, locals, chain, started, healthy, hc_i,
                    hc_pc, hc_resp, ALGORITHM, ca_pc, new_algo, ca_resp >>

\* --------------------------------------------------------- specifications

Select(t) ==
    \/ select_backend(t)
    \/ round_robin_get(t)
    \/ round_robin_lock(t)
    \/ round_robin_cs(t)
    \/ least_connections_get(t)
    \/ least_connections_min(t)
    \/ content_based_get(t)
    \/ content_based_pick(t)
    \/ file_size_get(t)
    \/ file_size_pick(t)

Handle(t) ==
    \/ proxy_no_backend(t)
    \/ proxy_track_lock(t)
    \/ proxy_inc_active(t)
    \/ proxy_inc_total(t)
    \/ \E o \in ForwardOutcomes : proxy_forward(t, o)
    \/ proxy_record_time(t)
    \/ proxy_history_lock(t)
    \/ proxy_history_append(t)
    \/ proxy_broadcast(t)
    \/ proxy_respond(t)
    \/ proxy_except_lock(t)
    \/ proxy_except_failed(t)
    \/ proxy_except_append(t)
    \/ proxy_except_return(t)
    \/ proxy_finally_lock(t)
    \/ proxy_finally_dec(t)

\* The handler's steps once a backend is selected, the forward ending in one
\* of the ways O.
Forwarded(t, O) ==
    \/ proxy_track_lock(t)
    \/ proxy_inc_active(t)
    \/ proxy_inc_total(t)
    \/ \E o \in O : proxy_forward(t, o)
    \/ proxy_record_time(t)
    \/ proxy_history_lock(t)
    \/ proxy_history_append(t)
    \/ proxy_broadcast(t)
    \/ proxy_respond(t)
    \/ proxy_except_lock(t)
    \/ proxy_except_failed(t)
    \/ proxy_except_append(t)
    \/ proxy_except_return(t)
    \/ proxy_finally_lock(t)
    \/ proxy_finally_dec(t)

\* The request threads' steps, for requests on the paths P, at most limit of them.
Requests(T, P, limit) ==
    \/ \E t \in T, p \in P : proxy_start(t, p, limit)
    \/ \E t \in T : Select(t)
    \/ \E t \in T : Handle(t)

HealthCheck ==
    \/ \E o \in ProbeOutcomes : health_check_probe(o)
    \/ health_check_broadcast

Admin ==
    \/ \E a \in AlgoRequests : change_algorithm(a)
    \/ change_algorithm_return

Stats ==
    \/ stats_algorithm
    \/ stats_backends
    \/ stats_total
    \/ stats_return

\* A moment before the first request: the health checker has set the flags
\* and the operator the policy.
InitQuiet ==
    /\ InitMetrics
    /\ InitThreads
    /\ InitControl
    /\ healthy \in [Names -> BOOLEAN]
    /\ ALGORITHM \in ValidSet

\* Concurrent requests, while no probe changes a flag and no policy change
\* arrives.
Next == Requests(Threads, MixPaths, MaxRequests)

Spec == InitQuiet /\ [][Next]_vars

\* Concurrent requests under the round-robin policy and a fixed healthy set.
InitRR ==
    /\ InitQuiet
    /\ ALGORITHM = "round-robin"

NextRR ==
    \/ \E t \in Threads : proxy_start(t, RootPath, MaxSelections)
    \/ \E t \in Threads : select_backend(t)
    \/ \E t \in Threads : round_robin_get(t)
    \/ \E t \in Threads : round_robin_lock(t)
    \/ \E t \in Threads : round_robin_cs(t)
    \/ \E t \in Threads : proxy_no_backend(t)
    \/ \E t \in Threads : Forwarded(t, { "ok" })

SpecRR == InitRR /\ [][NextRR]_vars

\* Concurrent requests under the file-size policy, one path per large
\* extension.
InitFS ==
    /\ InitQuiet
    /\ ALGORITHM = "file-size"

NextFS ==
    \/ \E t \in Threads, p \in FsPaths : proxy_start(t, p, MaxRequests)
    \/ \E t \in Threads : select_backend(t)
    \/ \E t \in Threads : file_size_get(t)
    \/ \E t \in Threads : file_size_pick(t)
    \/ \E t \in Threads : round_robin_get(t)
    \/ \E t \in Threads : round_robin_lock(t)
    \/ \E t \in Threads : round_robin_cs(t)
    \/ \E t \in Threads : proxy_no_backend(t)
    \/ \E t \in Threads : Forwarded(t, { "ok" })

SpecFS == InitFS /\ [][NextFS]_vars

\* Concurrent requests against stats queries, from the state the process
\* starts in.
NextStats ==
    \/ \E t \in Threads, p \in { VideoPath, ApiPath } : proxy_start(t, p, MaxRequests)
    \/ \E t \in Threads : select_backend(t)
    \/ \E t \in Threads : content_based_get(t)
    \/ \E t \in Threads : content_based_pick(t)
    \/ \E t \in Threads : proxy_track_lock(t)
    \/ \E t \in Threads : proxy_inc_active(t)
    \/ \E t \in Threads : proxy_inc_total(t)
    \/ \E t \in Threads, o \in ForwardOutcomes : proxy_forward(t, o)
    \/ \E t \in Threads : proxy_record_time(t)
    \/ \E t \in Threads : proxy_history_lock(t)
    \/ \E t \in Threads : proxy_history_append(t)
    \/ \E t \in Threads : proxy_broadcast(t)
    \/ \E t \in Threads : proxy_respond(t)
    \/ \E t \in Threads : proxy_except_lock(t)
    \/ \E t \in Threads : proxy_except_failed(t)
    \/ \E t \in Threads : proxy_except_append(t)
    \/ \E t \in Threads : proxy_except_return(t)
    \/ \E t \in Threads : proxy_finally_lock(t)
    \/ \E t \in Threads : proxy_finally_dec(t)
    \/ Stats

SpecStats == Init /\ [][NextStats]_vars

\* Everything the process runs: a request thread, the health-check loop,
\* policy changes and stats queries, with the policy going from content-based
\* to round-robin and the backends going down one after the other.
NextAll ==
    \/ proxy_start(1, VideoPath, MaxControlRequests)
    \/ select_backend(1)
    \/ content_based_get(1)
    \/ content_based_pick(1)
    \/ round_robin_get(1)
    \/ round_robin_lock(1)
    \/ round_robin_cs(1)
    \/ Handle(1)
    \/ health_check_probe("exception")
    \/ health_check_broadcast
    \/ \E a \in { "round-robin", "random" } : change_algorithm(a)
    \/ change_algorithm_return
    \/ Stats

SpecAll == Init /\ [][NextAll]_vars

\* A burst: one api request that is answered, and video requests that all
\* find ServerA's port closed while its flag is still set; the operator sets
\* the policy to what it is.
NextBurst ==
    \/ proxy_start(1, ApiPath, MaxControlRequests)
    \/ proxy_start(2, VideoPath, MaxBurst)
    \/ \E t \in Threads : select_backend(t)
    \/ \E t \in Threads : content_based_get(t)
    \/ \E t \in Threads : content_based_pick(t)
    \/ \E t \in Threads : proxy_track_lock(t)
    \/ \E t \in Threads : proxy_inc_active(t)
    \/ \E t \in Threads : proxy_inc_total(t)
    \/ proxy_forward(1, "ok")
    \/ proxy_forward(2, "conn_error")
    \/ \E t \in Threads : proxy_record_time(t)
    \/ \E t \in Threads : proxy_history_lock(t)
    \/ \E t \in Threads : proxy_history_append(t)
    \/ \E t \in Threads : proxy_broadcast(t)
    \/ \E t \in Threads : proxy_respond(t)
    \/ \E t \in Threads : proxy_except_lock(t)
    \/ \E t \in Threads : proxy_except_failed(t)
    \/ \E t \in Threads : proxy_except_append(t)
    \/ \E t \in Threads : proxy_except_return(t)
    \/ \E t \in Threads : proxy_finally_lock(t)
    \/ \E t \in Threads : proxy_finally_dec(t)
    \/ change_algorithm("content-based")
    \/ change_algorithm_return

SpecBurst == Init /\ [][NextBurst]_vars

\* The burst without the operator, from the moment the first HistoryCap - 2
\* video requests have failed, and on until the history is full and beyond:
\* more than HistoryCap requests.
Earlier == HistoryCap - 2

FailedVideo ==
    [ path      |-> << "/" >> \o VideoPath,
      type      |-> "video",
      backend   |-> "ServerA",
      duration  |-> MsPerSecond,
      status    |-> "failed",
      optimized |-> FALSE ]

InitFull ==
    /\ pc = [t \in Threads |-> "idle"]
    /\ path = [t \in Threads |-> RootPath]
    /\ backends = [t \in Threads |-> << >>]
    /\ backend = [t \in Threads |-> NoBackend]
    /\ duration = [t \in Threads |-> 0]
    /\ outcome = [t \in Threads |-> "none"]
    /\ route = [t \in Threads |-> << >>]
    /\ resp = [t \in Threads |-> 0]
    /\ decs = [t \in Threads |-> 0]
    /\ started = Earlier
    /\ seen = [t \in Threads |-> {}]
    /\ sel_policy = [t \in Threads |-> "none"]
    /\ InitControl
    /\ healthy = [n \in Names |-> TRUE]
    /\ ALGORITHM = "content-based"
    /\ active_connections = [n \in Names |-> 0]
    /\ total_requests = [n \in Names |-> IF n = "ServerA" THEN Earlier ELSE 0]
    /\ failed_requests = [n \in Names |-> IF n = "ServerA" THEN Earlier ELSE 0]
    /\ response_times = [n \in Names |-> << >>]
    /\ request_history = [i \in 1..Earlier |-> FailedVideo]
    /\ current_index = 0
    /\ lock = Free

NextFull ==
    \/ proxy_start(1, ApiPath, Earlier + MaxControlRequests)
    \/ proxy_start(2, VideoPath, MaxFull)
    \/ \E t \in Threads : select_backend(t)
    \/ \E t \in Threads : content_based_get(t)
    \/ \E t \in Threads : content_based_pick(t)
    \/ \E t \in Threads : proxy_track_lock(t)
    \/ \E t \in Threads : proxy_inc_active(t)
    \/ \E t \in Threads : proxy_inc_total(t)
    \/ proxy_forward(1, "ok")
    \/ proxy_forward(2, "conn_error")
    \/ \E t \in Threads : proxy_record_time(t)
    \/ \E t \in Threads : proxy_history_lock(t)
    \/ \E t \in Threads : proxy_history_append(t)
    \/ \E t \in Threads : proxy_broadcast(t)
    \/ \E t \in Threads : proxy_respond(t)
    \/ \E t \in Threads : proxy_except_lock(t)
    \/ \E t \in Threads : proxy_except_failed(t)
    \/ \E t \in Threads : proxy_except_append(t)
    \/ \E t \in Threads : proxy_except_return(t)
    \/ \E t \in Threads : proxy_finally_lock(t)
    \/ \E t \in Threads : proxy_finally_dec(t)

SpecFull == InitFull /\ [][NextFull]_vars

\* One client whose api requests are all answered by ServerB, more of them
\* than LatencyWindow.
NextAnswered ==
    \/ proxy_start(1, ApiPath, MaxAnswered)
    \/ select_backend(1)
    \/ content_based_get(1)
    \/ content_based_pick(1)
    \/ proxy_track_lock(1)
    \/ proxy_inc_active(1)
    \/ proxy_inc_total(1)
    \/ proxy_forward(1, "ok")
    \/ proxy_record_time(1)
    \/ proxy_history_lock(1)
    \/ proxy_history_append(1)
    \/ proxy_broadcast(1)
    \/ proxy_respond(1)
    \/ proxy_except_lock(1)
    \/ proxy_except_failed(1)
    \/ proxy_except_append(1)
    \/ proxy_except_return(1)
    \/ proxy_finally_lock(1)
    \/ proxy_finally_dec(1)

SpecAnswered == Init /\ [][NextAnswered]_vars

\* Requests for "/" of one client, which the content-based policy hands to
\* round_robin, while the health-check loop sets and clears flags.
NextShrink ==
    \/ proxy_start(1, RootPath, MaxRequests)
    \/ select_backend(1)
    \/ content_based_get(1)
    \/ content_based_pick(1)
    \/ round_robin_get(1)
    \/ round_robin_lock(1)
    \/ round_robin_cs(1)
    \/ Handle(1)
    \/ \E o \in { "200", "exception" } : health_check_probe(o)
    \/ health_check_broadcast

SpecShrink == Init /\ [][NextShrink]_vars

\* The same, with the health-check thread always getting its turn: a probe
\* answers or raises within its timeout and the sleep between cycles ends.
WatchLoop ==
    \/ \E o \in { "200", "exception" } : health_check_probe(o)
    \/ health_check_broadcast

SpecWatch == Init /\ [][NextShrink]_vars /\ WF_vars(WatchLoop)

\* Concurrent video requests under the content-based policy, with every
\* backend up or every backend down. Every thread that can take a step
\* takes one in the end: the scheduler leaves no runnable thread out, and
\* requests.request returns or raises within its timeout.
InitLive ==
    /\ InitMetrics
    /\ InitThreads
    /\ InitControl
    /\ ALGORITHM = "content-based"
    /\ healthy \in { [n \in Names |-> TRUE], [n \in Names |-> FALSE] }

NextLive ==
    \/ \E t \in Threads : proxy_start(t, VideoPath, MaxRequests)
    \/ \E t \in Threads : select_backend(t)
    \/ \E t \in Threads : content_based_get(t)
    \/ \E t \in Threads : content_based_pick(t)
    \/ \E t \in Threads : Handle(t)

SpecLive ==
    /\ InitLive
    /\ [][NextLive]_vars
    /\ \A t \in Threads : WF_vars(Select(t) \/ Handle(t))

\* Concurrent video requests under the content-based policy and the
\* health-check loop, from the state the process starts in.
NextGuard ==
    \/ \E t \in Threads : proxy_start(t, VideoPath, MaxRequests)
    \/ \E t \in Threads : select_backend(t)
    \/ \E t \in Threads : content_based_get(t)
    \/ \E t \in Threads : content_based_pick(t)
    \/ \E t \in Threads : round_robin_get(t)
    \/ \E t \in Threads : round_robin_lock(t)
    \/ \E t \in Threads : round_robin_cs(t)
    \/ \E t \in Threads : proxy_no_backend(t)
    \/ \E t \in Threads : Forwarded(t, { "ok", "timeout" })
    \/ WatchLoop

SpecGuard == Init /\ [][NextGuard]_vars

\* Concurrent requests under the least-connections policy, with every backend
\* up or ServerA down.
InitLC ==
    /\ InitMetrics
    /\ InitThreads
    /\ InitControl
    /\ ALGORITHM = "least-connections"
    /\ healthy \in { [n \in Names |-> TRUE], [n \in Names |-> n # "ServerA"] }

NextLC ==
    \/ \E t \in Threads : proxy_start(t, ApiPath, MaxRequests)
    \/ \E t \in Threads : select_backend(t)
    \/ \E t \in Threads : least_connections_get(t)
    \/ \E t \in Threads : least_connections_min(t)
    \/ \E t \in Threads : Forwarded(t, ForwardOutcomes)

SpecLC == InitLC /\ [][NextLC]_vars

\* Concurrent requests for a video and an api path under the content-based
\* policy, with every backend up or every backend down.
NextPair ==
    \/ \E t \in Threads, p \in { VideoPath, ApiPath } : proxy_start(t, p, MaxRequests)
    \/ \E t \in Threads : select_backend(t)
    \/ \E t \in Threads : content_based_get(t)
    \/ \E t \in Threads : content_based_pick(t)
    \/ \E t \in Threads : Handle(t)

SpecPair == InitLive /\ [][NextPair]_vars

\* Requests for "/" of one client against the health-check loop, with every
\* answer a probe can get.
NextProbe ==
    \/ proxy_start(1, RootPath, MaxControlRequests)
    \/ select_backend(1)
    \/ content_based_get(1)
    \/ content_based_pick(1)
    \/ round_robin_get(1)
    \/ round_robin_lock(1)
    \/ round_robin_cs(1)
    \/ Handle(1)
    \/ HealthCheck

SpecProbe == Init /\ [][NextProbe]_vars

\* Concurrent requests under the content-based policy and a fixed healthy
\* set: one path per prefix and one with no prefix.
InitCB ==
    /\ InitQuiet
    /\ ALGORITHM = "content-based"

CbPaths == { VideoPath, ApiPath, ImagePath, NestedVideoPath }

NextCB ==
    \/ \E t \in Threads, p \in CbPaths : proxy_start(t, p, MaxRequests)
    \/ \E t \in Threads : select_backend(t)
    \/ \E t \in Threads : content_based_get(t)
    \/ \E t \in Threads : content_based_pick(t)
    \/ \E t \in Threads : round_robin_get(t)
    \/ \E t \in Threads : round_robin_lock(t)
    \/ \E t \in Threads : round_robin_cs(t)
    \/ \E t \in Threads : Handle(t)

SpecCB == InitCB /\ [][NextCB]_vars

\* A request against the health-check loop, under each policy.
InitHealth ==
    /\ InitMetrics
    /\ InitThreads
    /\ InitControl
    /\ healthy = [n \in Names |-> TRUE]
    /\ ALGORITHM \in ValidSet

NextHealth ==
    \/ Requests({1}, Paths, MaxControlRequests)
    \/ HealthCheck

SpecHealth == InitHealth /\ [][NextHealth]_vars

\* A request against policy changes, with every backend up.
NextAdmin ==
    \/ \E p \in Paths : proxy_start(1, p, MaxControlRequests)
    \/ Select(1)
    \/ proxy_track_lock(1)
    \/ proxy_inc_active(1)
    \/ proxy_inc_total(1)
    \/ \E o \in ForwardOutcomes : proxy_forward(1, o)
    \/ proxy_record_time(1)
    \/ proxy_history_lock(1)
    \/ proxy_history_append(1)
    \/ proxy_broadcast(1)
    \/ proxy_respond(1)
    \/ proxy_except_lock(1)
    \/ proxy_except_failed(1)
    \/ proxy_except_append(1)
    \/ proxy_except_return(1)
    \/ proxy_finally_lock(1)
    \/ proxy_finally_dec(1)
    \/ Admin

SpecAdmin == Init /\ [][NextAdmin]_vars

\* ------------------------------------------------------------------ claims

\* A request is in flight on n: it has done proxy's increment for n and not
\* yet the decrement of the finally clause.
InFlight(t, n) ==
    /\ pc[t] \in { "inc_total", "forward", "rt_append", "hist_lock",
                   "hist_append", "bcast", "respond", "ex_lock", "ex_failed",
                   "ex_append", "ex_bcast", "fin_lock", "fin_dec" }
    /\ backend[t].name = n


\* C1: in every reachable state each backend's active_connections is >= 0 and
\* is the number of requests in flight on it, so the sum over the backends
\* is the number of requests in flight.
C1_ActiveIsInFlight ==
    /\ \A n \in Names :
          /\ active_connections[n] >= 0
          /\ active_connections[n] = Cardinality({ t \in Threads : InFlight(t, n) })
    /\ SumOver(active_connections, Names) =
          Cardinality({ t \in Threads : \E n \in Names : InFlight(t, n) })

\* Both threads' requests are in flight on the same backend.
C1_Witness ==
    \E n \in Names :
        /\ active_connections[n] = 2
        /\ \A t \in Threads : InFlight(t, n)

\* C2: a request for which a backend was selected has decremented the active
\* count exactly once when proxy returns, whether it returns the backend's
\* response or 502, and not at all before; a request answered 503 never does.
C2_DecrementOnce ==
    \A t \in Threads :
        /\ pc[t] = "done" /\ resp[t] \in { 200, 502 } => decs[t] = 1
        /\ pc[t] = "done" /\ resp[t] = 503 => decs[t] = 0
        /\ pc[t] # "done" => decs[t] = 0
        /\ pc[t] = "done" => resp[t] \in { 200, 502, 503 }

\* The only request so far succeeded at the backend, failed while its response
\* was built, and has returned 502 after one decrement.
C2_Witness ==
    \E t \in Threads :
        /\ started = 1
        /\ pc[t] = "done"
        /\ resp[t] = 502
        /\ decs[t] = 1
        /\ Len(request_history) = 2
        /\ request_history[1].status = "success"
        /\ request_history[2].status = "failed"
        /\ \A n \in Names : active_connections[n] = 0

\* The acting thread of a step is the one whose position changes.
Steps(t, from, to) == pc[t] = from /\ pc'[t] = to

\* Selections of n made so far: a selection is counted in total_requests
\* once its request has passed proxy's increment.
SelCount(n) ==
    total_requests[n] +
    Cardinality({ t \in Threads :
                    /\ pc[t] \in { "begin", "inc_active", "inc_total" }
                    /\ backend[t].name = n })

\* Of the selections 0 .. N-1, those that fall on position j of K.
Turns(j, N, K) == Cardinality({ i \in 0..(N - 1) : i % K = j - 1 })

C3_Counts ==
    LET H == get_healthy_backends
        K == Len(H)
        N == current_index
    IN  /\ \A j \in 1..K :
              /\ SelCount(H[j].name) = Turns(j, N, K)
              /\ SelCount(H[j].name) \in { N \div K, (N + K - 1) \div K }
        /\ \A n \in Names : ~healthy[n] => SelCount(n) = 0

C3_Order ==
    LET H == get_healthy_backends
    IN  /\ \A t \in Threads :
              Steps(t, "rr_cs", "begin") =>
                  /\ backend'[t] = H[(current_index % Len(H)) + 1]
                  /\ current_index' = current_index + 1
        /\ current_index' # current_index =>
              \E t \in Threads : Steps(t, "rr_cs", "begin")

\* C3: under round-robin with a fixed healthy set of size K, the selection
\* made when the cursor is N (they are ordered by the lock) returns healthy
\* backend number N mod K and moves the cursor to N + 1, so after N
\* selections each healthy backend has been selected floor(N/K) or
\* ceil(N/K) times, in cyclic declaration order.
C3_RoundRobinCyclic == [](C3_Counts) /\ [][C3_Order]_vars

\* Four selections over three healthy backends: ServerA twice.
C3_Witness ==
    /\ current_index = 4
    /\ \A n \in Names : healthy[n]
    /\ SelCount("ServerA") = 2
    /\ SelCount("ServerB") = 1
    /\ SelCount("ServerC") = 1

\* C4: a least-connections selection never returns a backend while some
\* healthy backend has a strictly smaller active count, in particular not a
\* backend B whose count has just been incremented.
C4_LeastConnAvoidsLoaded ==
    [][\A t \in Threads :
          Steps(t, "lc_min", "begin") =>
              /\ healthy[backend'[t].name]
              /\ \A n \in Names :
                    healthy[n] =>
                        active_connections[backend'[t].name] <= active_connections[n]]_vars

\* ServerA carries a request in flight and the next least-connections
\* selection has returned ServerB.
C4_Witness ==
    \E t, u \in Threads :
        /\ ALGORITHM = "least-connections"
        /\ \A n \in Names : healthy[n]
        /\ pc[u] = "forward" /\ backend[u].name = "ServerA"
        /\ active_connections["ServerA"] = 1
        /\ pc[t] = "begin" /\ backend[t].name = "ServerB"

\* C5: under every policy and for every path, selection returns None only
\* at a moment when no backend is flagged healthy: the read that made it
\* return None, the fallback's second read included, found an empty set.
C5_NoneOnlyWhenAllDown ==
    [][\A t \in Threads :
          pc[t] # "none" /\ pc'[t] = "none" =>
              /\ \A n \in Names : ~healthy[n]
              /\ pc[t] \in { "rr_get", "lc_get", "cb_get", "fs_get" }]_vars

\* content_based_routing found healthy backends, fell back to round_robin,
\* and round_robin's own read found none.
C5_Witness ==
    \E t \in Threads :
        /\ pc[t] = "none"
        /\ route[t] = << "content_based_routing", "round_robin" >>

Affinity(n) == BackendOf(n).type

\* C6: under content-based routing, a path with prefix video/, api/ or
\* image/ goes to a backend of that affinity whenever one is healthy
\* (ServerA, ServerB, ServerC), whatever the counts and the cursor.
C6_AffinityWins ==
    [][\A t \in Threads :
          /\ pc[t] = "cb_pick" /\ pc'[t] # "cb_pick"
          /\ \E n \in Names : healthy[n] /\ Affinity(n) = RequestType(path[t])
          => /\ pc'[t] = "begin"
             /\ backend'[t].type = RequestType(path[t])
             /\ healthy[backend'[t].name]
             /\ backend'[t].name =
                   CASE RequestType(path[t]) = "video" -> "ServerA"
                     [] RequestType(path[t]) = "api" -> "ServerB"
                     [] RequestType(path[t]) = "image" -> "ServerC"]_vars

\* A video request has been given ServerA although ServerA is the only
\* loaded backend and the cursor points at ServerB.
C6_Witness ==
    \E t \in Threads :
        /\ ALGORITHM = "content-based"
        /\ \A n \in Names : healthy[n]
        /\ pc[t] = "begin"
        /\ path[t] = VideoPath
        /\ backend[t].name = "ServerA"
        /\ active_connections = [n \in Names |-> IF n = "ServerA" THEN 1 ELSE 0]
        /\ current_index = 1

HistoryIndex == 1..Len(request_history)

C7_Records ==
    ALGORITHM = "content-based" =>
        \A i \in HistoryIndex :
            LET rec == request_history[i]
            IN  rec.path = << "/" >> \o VideoPath /\ rec.status = "success" =>
                    IF healthy["ServerA"]
                    THEN rec.backend = "ServerA" /\ rec.optimized
                    ELSE rec.backend \in { "ServerB", "ServerC" } /\ ~rec.optimized

C7_Routes ==
    \A t \in Threads :
        /\ ALGORITHM = "content-based"
        /\ path[t] = VideoPath
        /\ pc[t] # "begin" /\ pc'[t] = "begin"
        => IF healthy["ServerA"]
           THEN pc[t] = "cb_pick" /\ backend'[t].name = "ServerA"
           ELSE /\ pc[t] = "rr_cs"
                /\ route[t] = << "content_based_routing", "round_robin" >>
                /\ backend'[t].name \in { "ServerB", "ServerC" }
                /\ healthy[backend'[t].name]

\* C7: with the shipped backends and the content-based policy, a successful
\* request for video/movie.mp4 is routed to ServerA and recorded optimized
\* while ServerA is healthy; with ServerA unhealthy it is routed to ServerB
\* or ServerC by the round-robin fallback and recorded not optimized.
C7_VideoScenario == [](C7_Records) /\ [][C7_Routes]_vars

\* ServerA is down and the video request has been served and recorded by
\* another backend.
C7_Witness ==
    /\ ALGORITHM = "content-based"
    /\ ~healthy["ServerA"]
    /\ \E i \in HistoryIndex :
          /\ request_history[i].path = << "/" >> \o VideoPath
          /\ request_history[i].status = "success"
          /\ request_history[i].backend = "ServerC"
          /\ ~request_history[i].optimized

\* The paths the large-file rule is about, read from the claim.
C8_LargePath(p) ==
    \/ Len(p) >= 1 /\ p[Len(p)] \in { ".mp4", ".mkv", ".avi", ".zip", ".iso" }
    \/ \E i \in 1..Len(p) : p[i] = "video/"

C8_NotThroughCursor ==
    \A t \in Threads :
        pc[t] \in { "rr_get", "rr_lock", "rr_cs" } => ~C8_LargePath(path[t])

C8_Pick ==
    \A t \in Threads :
        pc[t] = "fs_pick" /\ pc'[t] # "fs_pick" /\ C8_LargePath(path[t]) =>
            /\ pc'[t] = "begin"
            /\ healthy[backend'[t].name]
            /\ \A n \in Names :
                  healthy[n] =>
                      active_connections[backend'[t].name] <= active_connections[n]
            /\ current_index' = current_index

\* C8: under the file-size policy a path that ends in .mp4, .mkv, .avi, .zip
\* or .iso, or that contains video/, never goes through round_robin when a
\* backend is healthy: it gets a backend of minimal active count among all
\* healthy backends, whatever their type, and the cursor stays as it was.
C8_LargeFilesLeastBusy == [](C8_NotThroughCursor) /\ [][C8_Pick]_vars

\* A path that only contains video/ has been given the api backend, the
\* video backend being the loaded one.
C8_Witness ==
    \E t \in Threads :
        /\ \A n \in Names : healthy[n]
        /\ pc[t] = "begin"
        /\ path[t] = NestedVideoPath
        /\ backend[t].name = "ServerB"
        /\ active_connections["ServerA"] = 1
        /\ current_index = 0

\* Where a request is between its start and a selection that returns None.
C9_Selecting ==
    { "sel_rr", "sel_lc", "sel_cb", "sel_fs", "rr_get", "lc_get", "cb_get",
      "fs_get", "cb_pick", "fs_pick", "none" }

\* C9: a request whose selection returns None is answered with 503 and no
\* step of it, from its start to its answer, changes a counter, a latency
\* sequence, the history or the cursor.
C9_RejectedTouchesNothing ==
    [][\A t \in Threads :
          /\ pc[t] # pc'[t] /\ pc'[t] \in C9_Selecting =>
                /\ pc[t] \in C9_Selecting \cup { "idle", "done" }
                /\ UNCHANGED metrics
          /\ pc[t] = "none" /\ pc'[t] # "none" =>
                /\ pc'[t] = "done"
                /\ resp'[t] = 503
                /\ UNCHANGED metrics]_vars

\* The first request has been answered 503 and the metrics are those of the
\* start.
C9_Witness ==
    \E t \in Threads :
        /\ pc[t] = "done"
        /\ resp[t] = 503
        /\ started = 1
        /\ InitMetrics

Failures == { "conn_error", "timeout" }

FailedRecords(n) ==
    { i \in HistoryIndex :
        request_history[i].status = "failed" /\ request_history[i].backend = n }

C10_Counted ==
    /\ \A n \in Names :
          failed_requests[n] =
              Cardinality(FailedRecords(n)) +
              Cardinality({ t \in Threads :
                              pc[t] = "ex_append" /\ backend[t].name = n })
    /\ \A i \in HistoryIndex :
          request_history[i].status = "failed" => ~request_history[i].optimized

C10_Handler ==
    /\ \A t \in Threads :
          /\ pc[t] = "forward" /\ pc'[t] # "forward" /\ outcome'[t] \in Failures =>
                pc'[t] = "ex_lock" /\ UNCHANGED metrics
          /\ Steps(t, "ex_failed", "ex_append") =>
                /\ failed_requests' =
                      [failed_requests EXCEPT ![backend[t].name] = @ + 1]
                /\ UNCHANGED request_history
          /\ Steps(t, "ex_append", "ex_bcast") =>
                /\ request_history' =
                      Append(request_history,
                             [ path      |-> << "/" >> \o path[t],
                               type      |-> RequestType(path[t]),
                               backend   |-> backend[t].name,
                               duration  |-> duration[t] * MsPerSecond,
                               status    |-> "failed",
                               optimized |-> FALSE ])
                /\ UNCHANGED failed_requests
          /\ pc[t] = "fin_dec" /\ pc'[t] # "fin_dec" /\ outcome[t] \in Failures =>
                resp'[t] = 502
    /\ failed_requests' # failed_requests =>
          \E t \in Threads : Steps(t, "ex_failed", "ex_append")

\* C10: a forward that fails by connection error or by timeout takes the
\* request to the exception handler, which adds one to the failed count of
\* the selected backend and of no other, appends one record with status
\* failed and optimized false naming that backend, and answers 502; the two
\* kinds of failure are handled alike.
C10_FailedForward == [](C10_Counted) /\ [][C10_Handler]_vars

\* A timed-out request has been counted and recorded and is about to leave
\* with 502.
C10_Witness ==
    \E t \in Threads :
        /\ pc[t] = "fin_lock"
        /\ outcome[t] = "timeout"
        /\ resp[t] = 502
        /\ failed_requests =
              [n \in Names |-> IF n = backend[t].name THEN 1 ELSE 0]
        /\ Len(request_history) >= 1
        /\ request_history[Len(request_history)].status = "failed"
        /\ request_history[Len(request_history)].backend = backend[t].name
        /\ ~request_history[Len(request_history)].optimized

\* A step of the health-check loop that probes BACKENDS[hc_i]: no request
\* thread, policy change or stats query moves in it.
ProbeStepOf(n) ==
    /\ hc_pc = "probe"
    /\ BACKENDS[hc_i].name = n
    /\ UNCHANGED << pc, ca_pc, ca_resp, st_pc, ALGORITHM >>

\* C11: a backend's health flag changes only in a probe of that backend by
\* the health-check loop; no step of a proxied request, of stats or of
\* change_algorithm writes a flag, so a failed forward leaves the backend
\* flagged as it was.
C11_FlagsOnlyByProbe ==
    [][\A n \in Names : healthy'[n] # healthy[n] => ProbeStepOf(n)]_vars

\* A forward to a backend has failed and been counted, and the backend is
\* still flagged healthy.
C11_Witness ==
    \E t \in Threads :
        /\ pc[t] = "fin_lock"
        /\ outcome[t] = "conn_error"
        /\ resp[t] = 502
        /\ failed_requests[backend[t].name] = 1
        /\ healthy[backend[t].name]

\* The four policy names, read from the claim.
C12_Recognized == { "round-robin", "least-connections", "content-based", "file-size" }

\* A step of change_algorithm's body: it starts from "idle" and takes in a name.
C12_Call ==
    /\ ca_pc = "idle"
    /\ << new_algo, ca_pc, ca_resp, ALGORITHM >>' # << new_algo, ca_pc, ca_resp, ALGORITHM >>

C12_Effect ==
    /\ C12_Call =>
          IF new_algo' \in C12_Recognized
          THEN ALGORITHM' = new_algo' /\ ca_pc' = "bcast"
          ELSE ALGORITHM' = ALGORITHM /\ ca_resp' = 400 /\ ca_pc' = "idle"
    /\ ALGORITHM' # ALGORITHM => C12_Call /\ new_algo' \in C12_Recognized
    /\ ca_pc = "bcast" /\ ca_pc' # "bcast" => ca_resp' = 200 /\ ALGORITHM' = ALGORITHM

C12_Answered ==
    /\ ALGORITHM \in C12_Recognized
    /\ ca_resp = 400 => new_algo \notin C12_Recognized /\ ca_pc = "idle"
    /\ ca_resp = 200 => new_algo = ALGORITHM

\* C12: a change_algorithm call whose name is not one of the four policies
\* is answered 400, leaves ALGORITHM as it was and goes to no broadcast; a
\* call with one of the four names sets ALGORITHM to that name.
C12_InvalidPolicyRejected == [](C12_Answered) /\ [][C12_Effect]_vars

\* The policy had been set to file-size, and a later call with another name
\* has been answered 400.
C12_Witness ==
    /\ ALGORITHM = "file-size"
    /\ new_algo = "random"
    /\ ca_resp = 400
    /\ ca_pc = "idle"

\* The algorithm that belongs to each policy.
AlgorithmOf(p) ==
    CASE p = "round-robin" -> "round_robin"
      [] p = "least-connections" -> "least_connections"
      [] p = "content-based" -> "content_based_routing"
      [] p = "file-size" -> "file_size_based_routing"

InChain == { "sel_rr", "sel_lc", "sel_cb", "sel_fs" }

\* select_backend calls an algorithm: the thread leaves the if-chain.
Dispatch(t) == pc[t] \in InChain /\ pc'[t] \notin InChain

\* The policies in force from the first test of the if-chain to this step.
SeenBy(t) == IF pc[t] = "sel_rr" THEN { ALGORITHM } ELSE seen[t]

\* C13: a selection during which the policy is swapped runs the algorithm
\* of a policy that was in force at some moment of the selection, the old
\* one or the new one, never that of a third policy.
C13_OldOrNew ==
    [][\A t \in Threads :
          Dispatch(t) =>
              Head(route'[t]) \in { AlgorithmOf(p) : p \in SeenBy(t) }]_vars

\* C14 as stated: after change_algorithm has returned 200 for P, a selection
\* that starts before the next change of policy runs the algorithm of P.
C14_StartedUnderP ==
    [][\A t \in Threads :
          Dispatch(t) /\ sel_policy'[t] # "none" =>
              Head(route'[t]) = AlgorithmOf(sel_policy'[t])]_vars

\* C14: after change_algorithm has returned 200 for P, a selection that
\* starts afterwards and reaches its algorithm before the policy is set to
\* another name runs the algorithm of P.
C14_TakesEffectOnNextDispatch ==
    [][\A t \in Threads :
          Dispatch(t) /\ sel_policy'[t] # "none" /\ SeenBy(t) = { sel_policy'[t] } =>
              Head(route'[t]) = AlgorithmOf(sel_policy'[t])]_vars

\* A selection entered after the change to file-size had returned is in
\* file_size_based_routing.
C14_Witness ==
    \E t \in Threads :
        /\ pc[t] = "fs_get"
        /\ sel_policy[t] = "file-size"
        /\ route[t] = << "file_size_based_routing" >>

\* A step of the health-check loop that probes a backend.
ProbeStep == hc_pc = "probe" /\ << hc_i, hc_pc >>' # << hc_i, hc_pc >>

\* The backend the last probe was made of.
LastProbed ==
    IF hc_pc = "bcast" THEN BACKENDS[hc_i].name
    ELSE BACKENDS[((hc_i + Len(BACKENDS) - 2) % Len(BACKENDS)) + 1].name

C15_FlagIsLastProbe ==
    hc_resp # "none" => (healthy[LastProbed] <=> hc_resp = "200")

C15_Immediate ==
    /\ ProbeStep =>
          /\ healthy'[BACKENDS[hc_i].name] = (hc_resp' = "200")
          /\ \A n \in Names \ { BACKENDS[hc_i].name } : healthy'[n] = healthy[n]
    /\ ~ProbeStep => healthy' = healthy
    /\ \A t \in Threads :
          pc[t] \in { "rr_get", "lc_get", "cb_get", "fs_get" } /\ pc'[t] # pc[t] =>
              /\ \A n \in Names :
                    healthy[n] <=>
                        \E j \in 1..Len(backends'[t]) : backends'[t][j].name = n
              /\ pc'[t] = "none" <=> \A n \in Names : ~healthy[n]

\* C15: one probe decides the flag: a probe that does not answer 200 leaves
\* the backend unflagged whatever the flag was, a probe that answers 200
\* leaves it flagged, nothing else changes a flag, and every read of the
\* healthy list holds exactly the backends flagged at that moment.
C15_NoDebounce == [](C15_FlagIsLastProbe) /\ [][C15_Immediate]_vars

\* ServerA's probe has just failed once, and the next read of the healthy
\* list is without it.
C15_Witness ==
    \E t \in Threads :
        /\ hc_pc = "bcast" /\ hc_i = 1 /\ hc_resp = "exception"
        /\ ~healthy["ServerA"]
        /\ pc[t] = "cb_pick"
        /\ backends[t] = << BACKENDS[2], BACKENDS[3] >>

\* The health-check loop calls broadcast_metrics.
HealthPublishes == hc_pc = "bcast" /\ hc_pc' # "bcast"

C16_Edges ==
    /\ ProbeStep => (hc_pc' = "bcast" <=> healthy' # healthy)
    /\ HealthPublishes => hc_pc' = "probe" /\ hc_i' = HcNext /\ healthy' = healthy
    /\ hc_pc' = "bcast" /\ hc_pc # "bcast" => ProbeStep

\* C16: a probe is followed by one broadcast of the health-check loop when
\* it has changed the backend's flag, in either direction and whether the
\* probe answered or raised, and by none when the flag is as it was; after
\* its broadcast the loop goes on to the next backend.
C16_BroadcastOnEdges == [][C16_Edges]_vars

\* ServerB had been taken out, its next probe answers 200, and the loop is
\* at the broadcast for the recovery.
C16_Witness ==
    /\ hc_pc = "bcast"
    /\ hc_i = 2
    /\ hc_resp = "200"
    /\ healthy["ServerB"]

\* Thread t calls broadcast_metrics for its request.
PublishesFor(t) ==
    \/ pc[t] = "bcast" /\ pc'[t] = "respond"
    \/ pc[t] = "ex_bcast" /\ pc'[t] = "fin_lock"

\* The record proxy has appended for the request of t before that call.
OwnRecord(t) ==
    IF pc[t] = "bcast"
    THEN HistoryRecord(t, "success", backend[t].type = RequestType(path[t]))
    ELSE HistoryRecord(t, "failed", FALSE)

Elements(q) == { q[i] : i \in 1..Len(q) }

Least(a, b) == IF a < b THEN a ELSE b

\* The "recent_requests" of a publication are the last min(20, length)
\* entries of the history, oldest first.
C17_Recent ==
    LET r == metrics_data.recent_requests
        h == request_history
    IN  /\ Len(r) = Least(RecentWindow, Len(h))
        /\ \A i \in 1..Len(r) : r[i] = h[Len(h) - Len(r) + i]

C17_Step ==
    /\ \A t \in Threads :
          /\ lock = t /\ request_history' # request_history
                => pc'[t] \in { "bcast", "ex_bcast" }
          /\ PublishesFor(t)
                => /\ metrics_data.algorithm = ALGORITHM
                   /\ Len(metrics_data.backends) = Len(BACKENDS)
                   /\ C17_Recent
                   /\ OwnRecord(t) \in Elements(metrics_data.recent_requests)
    /\ ca_pc = "idle" /\ new_algo' \in ValidSet /\ ca_resp' # ca_resp
          => ca_pc' = "bcast"
    /\ ca_pc = "bcast" /\ ca_pc' # "bcast" => C17_Recent /\ ca_resp' = 200

\* C17: an accepted policy change, and a request once its record is appended,
\* goes on to one call of broadcast_metrics; what is published carries the
\* policy, one entry per backend and the last min(20, length) history
\* entries oldest first, and the publication for a request has that
\* request's own record among them.
C17_PublishedWithOwnRecord == [][C17_Step]_vars

\* C18: a stats answer is the state of one instant: its total_requests and
\* total_failures are the sums of the total_requests and failed_requests of
\* the backends listed in the same answer.
C18_StatsOneInstant ==
    LET b == StatsAnswer.backends
    IN  st_pc = "failures" =>
            /\ StatsAnswer.total_requests =
                  SeqSum([i \in 1..Len(b) |-> b[i].total_requests])
            /\ StatsAnswer.total_failures =
                  SeqSum([i \in 1..Len(b) |-> b[i].failed_requests])

\* Some request has done "active_connections[backend_name] += 1" and not
\* yet "total_requests[backend_name] += 1".
HalfBegun == \E t \in Threads : pc[t] = "inc_total"

\* A step that reads both counters of every backend: the list of a stats
\* answer, or the broadcast_metrics of a request.
ReadsCounters ==
    \/ st_pc = "backends" /\ st_pc' = "total"
    \/ \E t \in Threads : PublishesFor(t)

\* C19: the two increments at the start of a dispatch are one unit: no stats
\* query and no broadcast of another request reads the counters between the
\* first increment and the second.
C19_BeginIsOneUnit == [][ReadsCounters => ~HalfBegun]_vars

\* The thread taking the step holds the lock.
StepUnderLock == \E t \in Threads : lock = t /\ pc'[t] # pc[t]

\* C20: every step that changes a counter, a latency sequence or the request
\* history is taken by a thread that holds the lock.
C20_MutationsUnderLock ==
    [][<< counters, response_times, request_history >>' #
          << counters, response_times, request_history >> => StepUnderLock]_vars

\* What a stats query reports of the state it runs in: the policy and the
\* entry of every backend.
Reported ==
    << ALGORITHM, [i \in 1..Len(BACKENDS) |-> BackendStats(BACKENDS[i])] >>

StatsStep == st_pc' # st_pc

\* C21: a step of a stats query leaves what a stats query reports as it is,
\* and the list it builds is the one of the state it runs in: two queries
\* with nothing between them report the same policy and the same
\* per-backend values.
C21_StatsReadsOnly ==
    [][StatsStep =>
          /\ Reported' = Reported
          /\ st_pc = "idle" => st_algo' = Reported[1]
          /\ st_pc = "backends" => st_backends' = Reported[2]]_vars

\* A query has listed ServerA with one answered request and its latency.
C21_Witness ==
    /\ st_pc = "total"
    /\ st_backends[1].total_requests = 1
    /\ st_backends[1].avg_response_time > 0
    /\ st_backends = Reported[2]

\* Thread t appends the record of its request to the history.
AppendStep(t) == pc[t] \in { "hist_append", "ex_append" } /\ pc'[t] # pc[t]

\* The record it appends.
NewRecord(t) ==
    IF pc[t] = "hist_append"
    THEN HistoryRecord(t, "success", backend[t].type = RequestType(path[t]))
    ELSE HistoryRecord(t, "failed", FALSE)

C22_Append ==
    /\ \A t \in Threads :
          AppendStep(t) =>
             request_history' =
                IF Len(request_history) < HistoryCap
                THEN Append(request_history, NewRecord(t))
                ELSE Append(Tail(request_history), NewRecord(t))
    /\ request_history' # request_history => \E t \in Threads : AppendStep(t)

\* C22: with the lock free the history has at most 50 entries; an append
\* puts the new record last and leaves the others in their order, and an
\* append to a history of 50 drops the first entry and no other, for the
\* record of an answered request and of a failed one.
C22_HistoryRing ==
    /\ [](lock = Free => Len(request_history) <= HistoryCap)
    /\ [][C22_Append]_vars

\* The history was full of failed video records; the answered api request
\* has been appended as the 51st record, and a 52nd, failed, after it.
C22_Witness ==
    /\ Len(request_history) = HistoryCap
    /\ failed_requests["ServerA"] = HistoryCap + 1
    /\ request_history[HistoryCap].status = "failed"
    /\ request_history[HistoryCap - 1].status = "success"
    /\ lock = Free

\* Thread t records the duration of its forward.
RecordStep(t) == pc[t] = "rt_append" /\ pc'[t] # pc[t]

C23_Record ==
    \A t \in Threads :
       RecordStep(t) =>
          LET q == response_times[backend[t].name]
          IN  response_times'[backend[t].name] =
                 IF Len(q) < LatencyWindow
                 THEN Append(q, duration[t])
                 ELSE Append(Tail(q), duration[t])

\* C23: the latency sequence of a backend never has more than 10 entries,
\* and recording a duration in a sequence of 10 drops the first one.
C23_LatencyBounded ==
    /\ [](\A n \in Names : Len(response_times[n]) <= LatencyWindow)
    /\ [][C23_Record]_vars

\* The request of t goes from its record and broadcast to the finally clause.
EndStep(t) == pc[t] # "fin_lock" /\ pc'[t] = "fin_lock"

\* C24: a request that ends, answered or failed, has its duration in the
\* latency sequence of its backend, and as the last entry when no other
\* request was recorded after it.
C24_DurationOfEitherOutcome ==
    [][\A t \in Threads :
          EndStep(t) =>
             /\ response_times[backend[t].name] # << >>
             /\ duration[t] \in Elements(response_times[backend[t].name])]_vars

\* Where thread t can come from when it enters a position of proxy.
C25_Once(t) ==
    /\ pc'[t] = "sel_rr" /\ pc[t] # "sel_rr" => pc[t] \in { "idle", "done" }
    /\ pc'[t] = "begin" /\ pc[t] # "begin"
          => pc[t] \in { "rr_cs", "lc_min", "cb_pick", "fs_pick" }
    /\ pc'[t] = "inc_active" /\ pc[t] # "inc_active" => pc[t] = "begin"
    /\ pc'[t] = "inc_total" /\ pc[t] # "inc_total" => pc[t] = "inc_active"
    /\ pc'[t] = "forward" /\ pc[t] # "forward" => pc[t] = "inc_total"

\* The backend of a request stays the one that was selected, and its
\* total_requests goes up by one when the request is begun.
C25_Attributed(t) ==
    /\ backend[t] # NoBackend /\ pc'[t] # "done" => backend'[t] = backend[t]
    /\ pc[t] = "inc_total" /\ pc'[t] # "inc_total"
          => total_requests' =
                [total_requests EXCEPT ![backend[t].name] = @ + 1]

C25_Step ==
    /\ \A t \in Threads : C25_Once(t) /\ C25_Attributed(t)
    /\ total_requests' # total_requests
          => \E t \in Threads : pc[t] = "inc_total" /\ pc'[t] = "forward"

\* No more requests are counted than have arrived.
C25_Counted == SumOver(total_requests, Names) <= started

\* C25: a request goes through selection once, is begun once on the backend
\* selected and forwarded once; total_requests changes only there, by one
\* and for that backend, and a failed forward is not sent anywhere again.
C25_OneBackendPerRequest == [](C25_Counted) /\ [][C25_Step]_vars

\* Two requests have arrived; the one of thread 1 failed against its backend
\* and is at the finally clause with 502, counted once.
C25_Witness ==
    /\ pc[1] = "fin_lock"
    /\ outcome[1] \in { "conn_error", "timeout" }
    /\ resp[1] = 502
    /\ started = 2
    /\ total_requests[backend[1].name] = 1
    /\ SumOver(total_requests, Names) = 2

\* The except clause of thread t counts a failure or appends a failed record.
FailureStep(t) == pc[t] \in { "ex_failed", "ex_append" } /\ pc'[t] # pc[t]

\* C26: a request with a backend appends one record, of an answered or of a
\* failed request and not one of each, and failed_requests is incremented
\* for it only when its forward has failed.
C26_OneRecordPerRequest ==
    /\ [](Len(request_history) <= started)
    /\ [][\A t \in Threads : FailureStep(t) => outcome[t] # "ok"]_vars

\* The category of a record's path: the record keeps the path with "/" in
\* front of it.
CategoryOf(rec) == RequestType(Tail(rec.path))

C27_Record(rec) ==
    /\ rec.type = CategoryOf(rec)
    /\ rec.optimized <=> (rec.status = "success" /\ Affinity(rec.backend) = rec.type)
    /\ rec.type = "default" \/ rec.status = "failed" => ~rec.optimized

\* C27: in every record of the history, under every policy, optimized is
\* true exactly when the status is success and the declared type of the
\* record's backend is the category of its path; it is false for a path of
\* category default and for a failed request.
C27_OptimizedFlag ==
    \A i \in 1..Len(request_history) : C27_Record(request_history[i])

\* The history has a failed record on the backend of the path's category,
\* and an answered one that is optimized.
C27_Witness ==
    /\ \E i \in 1..Len(request_history) :
          /\ request_history[i].status = "failed"
          /\ Affinity(request_history[i].backend) = request_history[i].type
    /\ \E i \in 1..Len(request_history) :
          /\ request_history[i].status = "success"
          /\ request_history[i].optimized
    /\ ALGORITHM = "round-robin"

\* The place of backend n in the declaration.
Declared(n) == CHOOSE i \in 1..Len(BACKENDS) : BACKENDS[i].name = n

\* n is the first healthy backend of the declaration.
FirstHealthy(n) ==
    healthy[n] /\ \A m \in Names : healthy[m] => Declared(n) <= Declared(m)

\* All healthy backends carry the same number of requests.
EqualCounts ==
    \A m, n \in Names :
       healthy[m] /\ healthy[n] => active_connections[m] = active_connections[n]

\* C28: a least-connections selection returns a healthy backend with the
\* least active count, and of several with that count the one declared
\* first; with the same count on every healthy backend it returns the first
\* healthy backend of the declaration.
C28_FirstMinimal ==
    [][\A t \in Threads :
          Steps(t, "lc_min", "begin") =>
             LET b == backend'[t].name
             IN  /\ healthy[b]
                 /\ \A n \in Names :
                       healthy[n] =>
                          /\ active_connections[b] <= active_connections[n]
                          /\ Declared(n) < Declared(b)
                                => active_connections[b] < active_connections[n]
                 /\ EqualCounts => FirstHealthy(b)]_vars

\* ServerA is out, ServerB has served one request and carries none, as
\* ServerC, and the selection has returned ServerB again.
C28_Witness ==
    \E t \in Threads :
        /\ ALGORITHM = "least-connections"
        /\ ~healthy["ServerA"] /\ healthy["ServerB"] /\ healthy["ServerC"]
        /\ active_connections["ServerB"] = 0
        /\ active_connections["ServerC"] = 0
        /\ total_requests["ServerB"] = 1
        /\ pc[t] = "begin" /\ backend[t].name = "ServerB"

\* The probe answers of the 2xx class.
Success2xx == { "200", "204" }

C29_Probe ==
    ProbeStep =>
       /\ healthy'[BACKENDS[hc_i].name] = (hc_resp' \in Success2xx)
       /\ \A n \in Names \ { BACKENDS[hc_i].name } : healthy'[n] = healthy[n]
       /\ hc_pc' \in { "probe", "bcast" }
       /\ hc_pc' = "probe" => hc_i' = HcNext

\* C29: a probe sets the flag of the probed backend from its own outcome,
\* true for an answer of the 2xx class and false for any other status, a
\* timeout or a refused connection, and the loop goes on to the broadcast
\* or the next backend whatever the outcome.
C29_FlagFromProbe == [][C29_Probe]_vars

\* content_based_routing has nothing of its own for the path of t: no
\* prefix, or no healthy backend of the prefix's type.
NoAffinity(t) ==
    \/ RequestType(path[t]) = "default"
    \/ \A n \in Names : healthy[n] => Affinity(n) # RequestType(path[t])

\* round_robin runs for t because content_based_routing called it.
ContentFallback(t) == route[t] = << "content_based_routing", "round_robin" >>

C30_Step(t) ==
    /\ pc[t] = "cb_pick" /\ pc'[t] # "cb_pick"
          => (NoAffinity(t) <=> pc'[t] = "rr_get" /\ ContentFallback(t)')
    /\ ContentFallback(t) /\ pc[t] = "rr_cs" /\ pc'[t] # "rr_cs"
          => /\ backends[t] = get_healthy_backends
             /\ backend'[t] =
                   get_healthy_backends[(current_index % Len(get_healthy_backends)) + 1]
             /\ current_index' = current_index + 1
             /\ pc'[t] = "begin"

\* C30: under the content-based policy a path with none of the prefixes,
\* or with a prefix whose type has no healthy backend, is handed to
\* round_robin: the backend returned is the healthy list at the cursor
\* modulo its length, and the shared cursor goes up by one.
C30_ContentFallsBackToRoundRobin == [][\A t \in Threads : C30_Step(t)]_vars

\* ServerA is out; a first fallback has moved the cursor to 1 and a video
\* path is in round_robin's critical section.
C30_Witness ==
    \E t \in Threads :
        /\ ALGORITHM = "content-based"
        /\ ~healthy["ServerA"] /\ healthy["ServerB"] /\ healthy["ServerC"]
        /\ RequestType(path[t]) = "video"
        /\ ContentFallback(t)
        /\ pc[t] = "rr_cs"
        /\ current_index = 1

\* round_robin runs for t because file_size_based_routing called it.
FileSizeFallback(t) == route[t] = << "file_size_based_routing", "round_robin" >>

C31_Step(t) ==
    /\ pc[t] = "fs_pick" /\ pc'[t] # "fs_pick"
          => (~C8_LargePath(path[t]) <=> pc'[t] = "rr_get" /\ FileSizeFallback(t)')
    /\ FileSizeFallback(t) /\ pc[t] = "rr_cs" /\ pc'[t] # "rr_cs"
          => /\ backends[t] = get_healthy_backends
             /\ backend'[t] =
                   get_healthy_backends[(current_index % Len(get_healthy_backends)) + 1]
             /\ current_index' = current_index + 1
             /\ pc'[t] = "begin"

\* C31: under the file-size policy a path with no large extension and no
\* "video/" in it is handed to round_robin: the backend returned is the
\* healthy list at the cursor modulo its length, whatever the active
\* counts, and the shared cursor goes up by one.
C31_SmallFallsBackToRoundRobin == [][\A t \in Threads : C31_Step(t)]_vars

\* ServerA carries a request, and the small path has still been given
\* ServerA, the backend at cursor 0.
C31_Witness ==
    \E t \in Threads :
        /\ ALGORITHM = "file-size"
        /\ \A n \in Names : healthy[n]
        /\ path[t] = ApiPath
        /\ pc[t] = "begin"
        /\ backend[t].name = "ServerA"
        /\ active_connections["ServerA"] = 1
        /\ active_connections["ServerB"] = 0
        /\ current_index = 1

\* Thread t leaves round_robin's critical section with a backend.
CursorStep(t) == pc[t] = "rr_cs" /\ pc'[t] # "rr_cs"

C32_Step ==
    /\ current_index' >= current_index
    /\ \A t \in Threads :
          /\ CursorStep(t) =>
                /\ backends[t] # << >>
                /\ lock = t
                /\ current_index' = current_index + 1
          /\ pc[t] \in { "lc_min", "cb_pick", "fs_pick", "rr_get", "lc_get",
                          "cb_get", "fs_get" } /\ pc'[t] # pc[t]
                => current_index' = current_index
    /\ current_index' # current_index => \E t \in Threads : CursorStep(t)

\* C32: the cursor never goes down; a selection that reaches round_robin's
\* critical section, which it does with a healthy list that is not empty,
\* moves it up by one while it holds the lock; the picks of
\* least_connections, of an affinity match and of the large-file rule, and
\* a read that finds no healthy backend, leave it as it is.
C32_CursorMonotonic == [](current_index >= 0) /\ [][C32_Step]_vars

\* Two concurrent round-robin selections have both returned and the cursor
\* is 2.
C32_Witness ==
    /\ ALGORITHM = "round-robin"
    /\ current_index = 2
    /\ \A t \in Threads : pc[t] = "begin"
    /\ backend[1] # backend[2]

\* The healthy list as a step of t has just read it: the flagged backends
\* in the order of the declaration.
ReadIsHealthySet(t) ==
    /\ \A j \in 1..Len(backends'[t]) : healthy[backends'[t][j].name]
    /\ \A n \in Names :
          healthy[n] => \E j \in 1..Len(backends'[t]) : backends'[t][j].name = n

C33_Step(t) ==
    /\ pc[t] = "rr_get" /\ pc'[t] # "rr_get" => ReadIsHealthySet(t)
    /\ CursorStep(t) =>
          LET i == (current_index % Len(backends[t])) + 1
          IN  /\ i \in 1..Len(backends[t])
              /\ backend'[t] = backends[t][i]

\* C33: with the flags changing under it, round_robin indexes the list it
\* has read, at the cursor modulo the length of that list, so never out of
\* range; the list holds the backends flagged when it was read, so the
\* backend returned was flagged then.
C33_IndexInsideListRead == [][\A t \in Threads : C33_Step(t)]_vars

\* The cursor is at 1 after a first selection; ServerA and ServerB have been
\* taken out; the second selection has read a list of one, returned ServerC
\* at 1 modulo 1, and a probe has cleared ServerC's flag since.
C33_Witness ==
    /\ current_index = 2
    /\ pc[1] = "begin"
    /\ backend[1].name = "ServerC"
    /\ total_requests["ServerA"] = 1
    /\ \A n \in Names : ~healthy[n]

\* An algorithm returns a backend to select_backend for t.
ReturnsBackend(t) == pc[t] # "begin" /\ pc'[t] = "begin"

C34_Step(t) ==
    /\ pc[t] \in { "rr_get", "lc_get", "cb_get", "fs_get" } /\ pc'[t] # pc[t]
          => ReadIsHealthySet(t)
    /\ pc[t] \in { "rr_lock", "rr_cs", "lc_min", "cb_pick", "fs_pick" }
          => /\ backends[t] # << >>
             /\ pc'[t] = pc[t] \/ pc[t] = "rr_lock" => backends'[t] = backends[t]
    /\ ReturnsBackend(t)
          => /\ pc[t] \in { "rr_cs", "lc_min", "cb_pick", "fs_pick" }
             /\ backend'[t] \in Elements(backends[t])

\* C34: under every policy the backend an algorithm returns is taken from
\* the healthy list that algorithm has read, and the list holds the backends
\* flagged at the moment of the read and no other; so a backend whose flag
\* is false at every read of a selection is not returned by it.
C34_ReturnedWasFlagged == [][\A t \in Threads : C34_Step(t)]_vars

\* A probe has taken ServerA out and least_connections has returned
\* ServerB.
C34_Witness ==
    /\ ALGORITHM = "least-connections"
    /\ hc_resp \in { "204", "500", "exception" }
    /\ ~healthy["ServerA"]
    /\ pc[1] = "begin"
    /\ backend[1].name = "ServerB"

\* The record of the request of t is in the history and the request has not
\* returned.
Recorded(t) == pc[t] \in { "bcast", "respond", "ex_bcast", "fin_lock", "fin_dec" }

\* C35: the one client's request is no longer counted in the active
\* connections of its backend once its record is in the history, and so in
\* what broadcast_metrics publishes for it.
C35_DecrementBeforeRecord ==
    /\ Recorded(1) => active_connections[backend[1].name] = 0
    /\ pc[1] \in { "bcast", "ex_bcast" } =>
          \A i \in 1..Len(BACKENDS) :
             metrics_data.backends[i].name = backend[1].name
                => metrics_data.backends[i].active = 0

\* The request of t is in proxy.
Running(t) == pc[t] \notin { "idle", "done" }

\* proxy has returned to the client of t.
Answered(t) == pc[t] = "done" /\ resp[t] \in { 200, 502, 503 }

\* C36: a request that has arrived is answered in the end, with the
\* backend's response, 502 or 503; one that is counted in a backend's
\* active connections is taken out of them in the end; and once no more
\* requests arrive every active count goes back to 0 and stays there.
C36_EveryRequestAnswered ==
    /\ \A t \in Threads : Running(t) ~> Answered(t)
    /\ \A t \in Threads : \A n \in Names :
          InFlight(t, n) ~> (~InFlight(t, n) /\ decs[t] = 1)
    /\ <>[](\A n \in Names : active_connections[n] = 0)

\* Both requests have been answered, one of them with 502, and nothing is
\* left in flight.
C36_Witness ==
    /\ started = MaxRequests
    /\ Answered(1) /\ Answered(2)
    /\ resp[1] = 502 /\ resp[2] = 200
    /\ decs[1] = 1 /\ decs[2] = 1
    /\ \A n \in Names : active_connections[n] = 0

\* The loop probes backend n and gets outcome o.
Probed(n, o) == ProbeStep /\ BACKENDS[hc_i].name = n /\ hc_resp' = o

\* The loop is about to probe backend number i.
AtProbe(i) == hc_pc = "probe" /\ hc_i = i

C37_Cycle == ProbeStep /\ hc_pc' = "probe" => hc_i' = HcNext

Critical ==
    { "rr_cs", "inc_active", "inc_total", "hist_append", "ex_failed",
      "ex_append", "fin_dec" }

\* The lock is held by a thread inside a block, and by no other.
C38_HeldInBlocks ==
    /\ lock # Free => lock \in Threads /\ pc[lock] \in Critical
    /\ \A t \in Threads : pc[t] \in Critical => lock = t

\* While a request waits for its backend, every other request in proxy can
\* take its next step, or waits for the lock while a third one is inside a
\* block and can take its own.
C38_NotBlocked ==
    \A t, u \in Threads :
       pc[t] = "forward" /\ u # t /\ Running(u) =>
          \/ ENABLED (Select(u) \/ Handle(u))
          \/ \E w \in Threads \ { t, u } :
                lock = w /\ ENABLED (Select(w) \/ Handle(w))

C38_Step ==
    /\ \A t \in Threads :
          lock = t /\ pc'[t] # pc[t] => lock' = Free \/ pc'[t] \in Critical
    /\ << hc_i, hc_pc, hc_resp, healthy >>' # << hc_i, hc_pc, hc_resp, healthy >>
          => lock' = lock

\* C38: the lock is held only inside the blocks that update the counters,
\* the cursor and the history, so not during a forward or a broadcast; the
\* health-check loop never takes it; a thread that holds it can go on and
\* release it, and a request waiting for a slow backend stops no other
\* request from selecting or counting.
C38_LockOnlyForUpdates ==
    /\ [](C38_HeldInBlocks /\ C38_NotBlocked)
    /\ [][C38_Step]_vars

\* Thread 1 waits for ServerA; ServerA has since been taken out by a probe
\* whose broadcast is due; thread 2 has been given ServerB and holds the
\* lock to count its request.
C38_Witness ==
    /\ pc[1] = "forward"
    /\ backend[1].name = "ServerA"
    /\ hc_pc = "bcast"
    /\ ~healthy["ServerA"]
    /\ lock = 2
    /\ pc[2] = "inc_total"
    /\ backend[2].name = "ServerB"

\* Thread t runs "active_connections[backend_name] += 1".
BeginStep(t) == pc[t] = "inc_active" /\ pc'[t] # "inc_active"

\* C39: under least-connections, a request counts itself on a backend that
\* still has the least active count of the healthy backends at that moment,
\* as if selecting and counting were one step.
C39_StillMinimalAtIncrement ==
    [][\A t \in Threads :
          ALGORITHM = "least-connections" /\ BeginStep(t) =>
             \A n \in Names :
                healthy[n] =>
                   active_connections[backend[t].name] <= active_connections[n]]_vars

\* The requests dispatched to n that have finished: those counted in
\* total_requests and no longer in flight. A request between the two
\* increments is in active_connections and not yet in total_requests.
Finished(n) ==
    total_requests[n] - active_connections[n]
       + Cardinality({ t \in Threads : pc[t] = "inc_total" /\ backend[t].name = n })

\* Thread t runs the decrement of the finally clause for a request on n.
FinishStep(t, n) == pc[t] = "fin_dec" /\ pc'[t] # "fin_dec" /\ backend[t].name = n

C40_Counters ==
    \A n \in Names :
       /\ 0 <= failed_requests[n]
       /\ failed_requests[n] <= total_requests[n]
       /\ 0 <= Finished(n)
       /\ total_requests[n] =
             Finished(n) + Cardinality({ t \in Threads :
                                           /\ InFlight(t, n)
                                           /\ pc[t] # "inc_total" })

C40_Step ==
    \A n \in Names :
       /\ total_requests'[n] >= total_requests[n]
       /\ failed_requests'[n] >= failed_requests[n]
       /\ Finished(n)' =
             Finished(n) + (IF \E t \in Threads : FinishStep(t, n) THEN 1 ELSE 0)

\* C40: for every backend failed_requests is at most total_requests, neither
\* counter goes down, and total_requests is the number of requests on the
\* backend that are past the increment and in flight plus the number that
\* have finished, which goes up by one with each decrement of a finally
\* clause and at no other step.
C40_CountersAddUp == [](C40_Counters) /\ [][C40_Step]_vars

\* Two requests on ServerA: one has failed and finished, one is in flight.
C40_Witness ==
    /\ total_requests["ServerA"] = 2
    /\ failed_requests["ServerA"] = 1
    /\ active_connections["ServerA"] = 1
    /\ Finished("ServerA") = 1
    /\ \E t \in Threads : pc[t] = "forward"

====
